---- MODULE Spec2Model ----
(***************************************************************************)
(* Animal Extinction Timeline: the three parallel implementations of the   *)
(* timeline (the class-based modules around ExtinctionTimelineApp, the     *)
(* React hooks, and the legacy DOM script) as one state machine.  A page   *)
(* runs exactly one of them; `impl` says which.                            *)
(***************************************************************************)
EXTENDS Integers, Sequences, FiniteSets, TLC

\* ------------------------------------------------------------------------
\* Bounds of the model
\* ------------------------------------------------------------------------

\* longest `events` array of a payload
MaxEvents == 2

\* number of loads (initialize / fetchEvents / loadEvents calls) in one run
MaxLoads == 2

\* ------------------------------------------------------------------------
\* JSON values and the data model
\* ------------------------------------------------------------------------

Implementations == {"vanilla", "react", "legacy"}

AnimalCategories == {"Mammals", "Birds", "Reptiles"}

FilterCategories == <<"All", "Mammals", "Birds", "Reptiles">>

FilterCategorySet == {FilterCategories[i] : i \in 1..Len(FilterCategories)}

requiredFields ==
  <<"id", "year", "title", "description", "imageURL", "category", "location", "cause">>

\* A JSON value as the script sees it after response.json(): its typeof tag
\* and its number or string content.  "undefined" is an absent key.
JsNum(n) == [n |-> n, t |-> "number", s |-> ""]

JsStr(s) == [n |-> 0, t |-> "string", s |-> s]

JsNull == [n |-> 0, t |-> "null", s |-> ""]

JsUndef == [n |-> 0, t |-> "undefined", s |-> ""]

\* A validated ExtinctionEvent.
ExtinctionEvent(id, year, title, category) ==
  [id |-> id, year |-> year, title |-> title, category |-> category,
   description |-> "It is gone.", imageURL |-> "img.jpg", location |-> "Island",
   cause |-> "Hunting"]

Tiger == ExtinctionEvent(1, 1936, "Tasmanian Tiger", "Mammals")

Dodo == ExtinctionEvent(2, 1662, "Dodo Bird", "Birds")

Tortoise == ExtinctionEvent(3, 1662, "Giant Tortoise", "Reptiles")

\* no event of the universe has this id
NoId == 0

NoEvent == ExtinctionEvent(NoId, 0, "", "")

\* The element of a payload's events array that parses to event e.
Raw(e) ==
  [id |-> JsNum(e.id), year |-> JsNum(e.year), title |-> JsStr(e.title),
   category |-> JsStr(e.category), description |-> JsStr(e.description),
   imageURL |-> JsStr(e.imageURL), location |-> JsStr(e.location),
   cause |-> JsStr(e.cause), obj |-> TRUE]

\* Malformed elements: a required field absent, a category outside the
\* enumeration, a title with surrounding blanks, and an id of the wrong type.
TigerNoCause == [Raw(Tiger) EXCEPT !.cause = JsUndef]

DodoFish == [Raw(Dodo) EXCEPT !.category = JsStr("Fish")]

DodoPadded == [Raw(Dodo) EXCEPT !.title = JsStr("  Dodo Bird ")]

\* an element whose id is the string "3" instead of the number 3
TortoiseTextId == [Raw(Tortoise) EXCEPT !.id = JsStr(ToString(Tortoise.id))]

ValidEvents == {Tiger, Dodo, Tortoise}

RawEvents ==
  {Raw(e) : e \in ValidEvents} \cup {TigerNoCause, DodoFish, DodoPadded, TortoiseTextId}

RawSeqs == UNION {[1..n -> RawEvents] : n \in 0..MaxEvents}

\* The parsed body `data`: top is its kind, ev the kind of data.events.
Payload(top, ev, events) == [top |-> top, ev |-> ev, events |-> events]

Payloads ==
  {Payload("object", "array", es) : es \in RawSeqs}
    \cup {Payload("object", "undefined", <<>>), Payload("object", "string", <<>>),
          Payload("null", "undefined", <<>>), Payload("array", "undefined", <<>>)}

\* What fetch() settles to: an HTTP status and, for a success status, the body.
Response(status, data) == [status |-> status, data |-> data]

\* a 404 comes with a body that is no events payload, or with one that would
\* parse to the Tasmanian Tiger
Responses ==
  {Response(200, p) : p \in Payloads}
    \cup {Response(404, Payload("object", "undefined", <<>>)),
          Response(404, Payload("object", "array", <<Raw(Tiger)>>))}

responseOk(r) == r.status >= 200 /\ r.status <= 299

statusText(status) ==
  IF status = 404 THEN "Not Found" ELSE IF status = 200 THEN "OK" ELSE ""

\* The outcome of a load: the events on success, the Error's message on
\* failure.
Loaded(events) == [ok |-> TRUE, events |-> events, message |-> ""]

Thrown(message) == [ok |-> FALSE, events |-> <<>>, message |-> message]

\* String.prototype.trim on the strings of the universe.
trim(s) == IF s = "  Dodo Bird " THEN "Dodo Bird" ELSE s

\* ------------------------------------------------------------------------
\* Array.prototype.sort((a, b) => a.year - b.year)
\* ------------------------------------------------------------------------

\* the comparator with its operands swapped, which orders newest first
compareYearDescending(a, b) == b.year - a.year

compareYear(a, b) == a.year - b.year

\* Stable insertion: x goes before the first element that compares greater.
RECURSIVE insertSorted(_, _)
insertSorted(sorted, x) ==
  IF sorted = <<>> THEN <<x>>
  ELSE IF compareYear(Head(sorted), x) > 0 THEN <<x>> \o sorted
  ELSE <<Head(sorted)>> \o insertSorted(Tail(sorted), x)

RECURSIVE sortFrom(_, _)
sortFrom(sorted, rest) ==
  IF rest = <<>> THEN sorted
  ELSE sortFrom(insertSorted(sorted, Head(rest)), Tail(rest))

sortEventsByYear(events) == sortFrom(<<>>, events)

\* ------------------------------------------------------------------------
\* DataFetcher (class-based modules)
\* ------------------------------------------------------------------------

Min(S) == CHOOSE x \in S : \A y \in S : x <= y

\* The result of one validate* helper: the value it returns or the message
\* of the Error it throws.
Valid(n, s) == [ok |-> TRUE, n |-> n, s |-> s, message |-> ""]

Invalid(message) == [ok |-> FALSE, n |-> 0, s |-> "", message |-> message]

validateString(value, fieldName) ==
  IF value.t /= "string" \/ trim(value.s) = ""
  THEN Invalid(fieldName \o " must be a non-empty string")
  ELSE Valid(0, trim(value.s))

validateNumber(value, fieldName) ==
  IF value.t /= "number"
  THEN Invalid(fieldName \o " must be a valid number")
  ELSE Valid(value.n, "")

validateCategory(value, fieldName) ==
  IF value.t /= "string" \/ value.s \notin AnimalCategories
  THEN Invalid(fieldName \o " must be one of: Mammals, Birds, Reptiles")
  ELSE Valid(0, value.s)

\* validateEvent(event, index): index counts from 0, as Array.map passes it.
validateEvent(event, index) ==
  LET ix == ToString(index)
      absent == {i \in 1..Len(requiredFields) :
                   event[requiredFields[i]].t \in {"undefined", "null"}}
      checks ==
        <<validateNumber(event.id, "Event " \o ix \o " id"),
          validateNumber(event.year, "Event " \o ix \o " year"),
          validateString(event.title, "Event " \o ix \o " title"),
          validateString(event.description, "Event " \o ix \o " description"),
          validateString(event.imageURL, "Event " \o ix \o " imageURL"),
          validateCategory(event.category, "Event " \o ix \o " category"),
          validateString(event.location, "Event " \o ix \o " location"),
          validateString(event.cause, "Event " \o ix \o " cause")>>
      failed == {i \in 1..Len(checks) : ~checks[i].ok}
  IN  IF ~event.obj
      THEN Thrown("Event at index " \o ix \o " is not a valid object")
      ELSE IF absent /= {}
      THEN Thrown("Event at index " \o ix \o " missing required field: "
                    \o requiredFields[Min(absent)])
      ELSE IF failed /= {}
      THEN Thrown(checks[Min(failed)].message)
      ELSE Loaded(<<[id |-> checks[1].n, year |-> checks[2].n, title |-> checks[3].s,
                     description |-> checks[4].s, imageURL |-> checks[5].s,
                     category |-> checks[6].s, location |-> checks[7].s,
                     cause |-> checks[8].s]>>)

\* data.events.map(validateEvent): the first element that throws ends the map.
RECURSIVE mapValidateEvent(_, _, _)
mapValidateEvent(raw, index, done) ==
  IF index >= Len(raw) THEN Loaded(done)
  ELSE LET r == validateEvent(raw[index + 1], index)
       IN  IF r.ok THEN mapValidateEvent(raw, index + 1, done \o r.events) ELSE r

validateResponse(data) ==
  IF data.top /= "object" THEN Thrown("Response is not a valid object")
  ELSE IF data.ev /= "array" THEN Thrown("Response missing events array")
  ELSE mapValidateEvent(data.events, 0, <<>>)

\* createTimelineError(error): new (TimelineError as any)(...).  The module
\* imports TimelineError with `import type`, which the compiler erases.  Where
\* the name is bound when the script runs, the error is constructed; where it
\* is not, evaluating it throws a ReferenceError in place of that error.
createTimelineError(message, bound) ==
  IF bound THEN "Failed to load timeline data: " \o message
  ELSE "TimelineError is not defined"

\* DataFetcher.fetchEvents once fetch() has settled with `response`; `bound`
\* says whether the script finds TimelineError bound.
fetchEvents(response, bound) ==
  LET validatedData == validateResponse(response.data)
  IN  IF ~responseOk(response)
      THEN Thrown(createTimelineError(
             "HTTP " \o ToString(response.status) \o ": " \o statusText(response.status),
             bound))
      ELSE IF ~validatedData.ok
      THEN Thrown(createTimelineError(validatedData.message, bound))
      ELSE Loaded(sortEventsByYear(validatedData.events))

\* ------------------------------------------------------------------------
\* useExtinctionEvents (React hook): validation and sort
\* ------------------------------------------------------------------------

isValidEvent(event) ==
  /\ event.obj
  /\ event.id.t = "number"
  /\ event.year.t = "number"
  /\ event.title.t = "string"
  /\ event.description.t = "string"
  /\ event.imageURL.t = "string"
  /\ event.category.t = "string"
  /\ event.location.t = "string"
  /\ event.cause.t = "string"
  /\ event.category.s \in AnimalCategories

\* `event as ExtinctionEvent`: the parsed object itself, nothing trimmed.
asExtinctionEvent(event) ==
  [id |-> event.id.n, year |-> event.year.n, title |-> event.title.s,
   description |-> event.description.s, imageURL |-> event.imageURL.s,
   category |-> event.category.s, location |-> event.location.s,
   cause |-> event.cause.s]

RECURSIVE mapIsValidEvent(_, _, _)
mapIsValidEvent(raw, index, done) ==
  IF index >= Len(raw) THEN Loaded(done)
  ELSE IF ~isValidEvent(raw[index + 1])
  THEN Thrown("Invalid event at index " \o ToString(index))
  ELSE mapIsValidEvent(raw, index + 1, done \o <<asExtinctionEvent(raw[index + 1])>>)

\* validateEvents(data.events); reading .events of null is a TypeError.
validateEvents(data) ==
  IF data.top = "null" THEN Thrown("Cannot read properties of null (reading 'events')")
  ELSE IF data.ev /= "array" THEN Thrown("Events data is not an array")
  ELSE mapIsValidEvent(data.events, 0, <<>>)

\* The body of useExtinctionEvents.fetchEvents between the await and the
\* state setters.
hookFetchResult(response) ==
  LET validatedEvents == validateEvents(response.data)
  IN  IF ~responseOk(response)
      THEN Thrown("HTTP " \o ToString(response.status) \o ": "
                    \o statusText(response.status))
      ELSE IF ~validatedEvents.ok THEN validatedEvents
      ELSE Loaded(sortEventsByYear(validatedEvents.events))

\* ------------------------------------------------------------------------
\* State
\* ------------------------------------------------------------------------

VARIABLES
  impl,             \* which implementation the page runs
  mounts,           \* the mount points the document provides
  components,       \* ExtinctionTimelineApp: how startup ended, and the components it holds
  started,          \* loads begun so far; the n-th load has token n
  pending,          \* tokens of the loads whose fetch has not settled
  latestLoad,       \* the most recently started load and, once settled, its outcome
  last,             \* the handler that ran last, with its input
  appState,         \* ExtinctionTimelineApp.appState
  filterComponent,  \* FilterComponent: allEvents, currentFilter
  filterButtons,    \* the .filter-btn elements, in document order
  timeline,         \* content of the #timeline element
  timelineListeners, \* listeners TimelineRenderer holds on #timeline: click, keydown
  loadingDisplay,   \* style.display of the #loading element
  modalComponent,   \* ModalComponent: isOpen, currentEvent
  bodyOverflow,     \* document.body.style.overflow
  activeElement,    \* document.activeElement: the modal's close button, or elsewhere
  hook,             \* useExtinctionEvents: events, isLoading, error, activeFilter
  mounted,          \* the hook's mount effect has run
  useModal,         \* useModal: isOpen, selectedEvent
  timelineEvents,   \* legacy script: the global timelineEvents
  listenersReady,   \* legacy script: setupEventListeners has run
  modal,            \* legacy script: the #modal element, hidden or not, and what it shows
  themeComponent,   \* ThemeComponent: currentTheme
  useTheme,         \* useTheme: theme
  themeReady,       \* the theme has been initialised and its toggle listens
  bodyDark,         \* document.body carries the class dark-theme
  metaThemeColor,   \* content of <meta name="theme-color">, "" while absent
  toggleButton,     \* the theme toggle: textContent (icon) and aria-label
  storage,          \* localStorage: the value under the theme key; whether it throws
  systemDark,       \* (prefers-color-scheme: dark) matches
  userChose         \* the user has set a theme since the preference was last cleared

vars ==
  <<impl, mounts, components, started, pending, latestLoad, last, appState, filterComponent,
    filterButtons, timeline, timelineListeners, loadingDisplay, modalComponent,
    bodyOverflow, activeElement, hook, mounted, useModal, timelineEvents, listenersReady, modal, themeComponent, useTheme,
    themeReady, bodyDark, metaThemeColor, toggleButton, storage, systemDark,
    userChose>>

loadVars == <<started, pending, latestLoad>>

vanillaVars ==
  <<appState, filterComponent, filterButtons, loadingDisplay, modalComponent,
    timelineListeners>>

reactVars == <<hook, mounted, useModal>>

legacyVars == <<timelineEvents, listenersReady, modal>>

themeVars ==
  <<themeComponent, useTheme, themeReady, bodyDark, metaThemeColor, toggleButton,
    storage, systemDark, userChose>>

\* JavaScript's null, for a string-valued field.
null == "null"

NoResponse == Response(0, Payload("undefined", "undefined", <<>>))

\* `last`: op names the handler; the other fields hold its input, if any (for
\* a retry, the filter that was selected when the button was clicked; for a
\* handler of a rendered entry, the entry's position in the timeline and how
\* many times the one click or key press called the activation handler; for
\* a Tab, the element that had the focus when it was pressed; for a filter
\* click, how many times it rendered the timeline; for a theme handler,
\* whether it ended by throwing),
\* for a modal handler the event that was selected when it was called, and for
\* a theme handler the theme that held when it was called.
Ran(op) ==
  [op |-> op, token |-> 0, response |-> NoResponse, event |-> NoEvent, category |-> "",
   selected |-> NoEvent, wasTheme |-> "", entry |-> 0, activations |-> 0,
   focus |-> "", renders |-> 0, threw |-> FALSE]

RanLoad(op, token, response) == [Ran(op) EXCEPT !.token = token, !.response = response]

RanEvent(op, event, selected) == [Ran(op) EXCEPT !.event = event, !.selected = selected]

RanCategory(op, category) == [Ran(op) EXCEPT !.category = category]

RanTheme(op, wasTheme) == [Ran(op) EXCEPT !.wasTheme = wasTheme]

\* `latestLoad`: whether the load began while an earlier one was pending, and
\* its outcome once its fetch has settled.
NotSettled(overlap) == [st |-> "pending", res |-> Thrown(""), overlap |-> overlap]

Settled(load, res) == [load EXCEPT !.st = "done", !.res = res]

\* ------------------------------------------------------------------------
\* FilterComponent
\* ------------------------------------------------------------------------

\* a check that lets every string pass
isValidCategoryAny(category) == TRUE

\* FilterComponent.isValidCategory
isValidCategory(category) == category \in FilterCategorySet

\* button.textContent?.trim(): the labels carry no surrounding blanks
getButtonCategory(button) ==
  IF button.dataCategory /= "" /\ isValidCategory(button.dataCategory)
  THEN button.dataCategory
  ELSE IF button.textContent /= "" /\ isValidCategory(trim(button.textContent))
  THEN trim(button.textContent)
  ELSE null

RECURSIVE filterByCategory(_, _)
filterByCategory(events, category) ==
  IF events = <<>> THEN <<>>
  ELSE (IF Head(events).category = category THEN <<Head(events)>> ELSE <<>>)
         \o filterByCategory(Tail(events), category)

\* the filter without its All case, every value compared as a category
getFilteredEventsNoAll(allEvents, currentFilter) == filterByCategory(allEvents, currentFilter)

getFilteredEvents(allEvents, currentFilter) ==
  IF currentFilter = "All" THEN allEvents ELSE filterByCategory(allEvents, currentFilter)

\* counts[event.category]++ over the events, from All: length and the rest 0
\* (a validated event carries no category but the three counted ones)
RECURSIVE countInto(_, _)
countInto(counts, events) ==
  IF events = <<>> THEN counts
  ELSE LET c == Head(events).category
       IN  countInto(IF c \in DOMAIN counts THEN [counts EXCEPT ![c] = @ + 1] ELSE counts,
                     Tail(events))

\* the tally with All started at 0 like the other keys
getCategoryCountsFromZero(allEvents) ==
  countInto([c \in FilterCategorySet |-> 0], allEvents)

getCategoryCounts(allEvents) ==
  countInto([c \in FilterCategorySet |-> IF c = "All" THEN Len(allEvents) ELSE 0],
            allEvents)

\* text.includes('('): of the texts a button ever carries, only the plain
\* category labels have no parenthesis
includesParen(text) == text \notin FilterCategorySet

updateActiveButton(buttons, currentFilter) ==
  [i \in DOMAIN buttons |->
     LET isActive == getButtonCategory(buttons[i]) = currentFilter
     IN  [buttons[i] EXCEPT !.active = isActive,
                            !.ariaPressed = IF isActive THEN "true" ELSE "false"]]

updateButtonCounts(buttons, allEvents) ==
  LET counts == getCategoryCounts(allEvents)
  IN  [i \in DOMAIN buttons |->
         LET category == getButtonCategory(buttons[i])
         IN  IF category /= null /\ category \in DOMAIN counts
                  /\ ~includesParen(buttons[i].textContent)
             THEN [buttons[i] EXCEPT !.textContent =
                     category \o " (" \o ToString(counts[category]) \o ")"]
             ELSE buttons[i]]

\* findActiveButton: the first button carrying the class 'active'
initializeActiveFilter(buttons) ==
  LET act == {i \in DOMAIN buttons : buttons[i].active}
  IN  IF act /= {} /\ getButtonCategory(buttons[Min(act)]) /= null
      THEN getButtonCategory(buttons[Min(act)])
      ELSE "All"

\* ------------------------------------------------------------------------
\* TimelineRenderer
\* ------------------------------------------------------------------------

\* no message of the universe holds &, < or >, the characters innerHTML escapes
escapeHtml(text) == text

Region(kind, entries, message) == [kind |-> kind, entries |-> entries, message |-> message]

\* render(events): clearTimeline, then the empty state or one article per event
render(events) ==
  IF Len(events) = 0 THEN Region("empty", <<>>, "") ELSE Region("events", events, "")

renderError(message) == Region("error", <<>>, escapeHtml(message))

\* ------------------------------------------------------------------------
\* Initial state
\* ------------------------------------------------------------------------

\* The filter buttons of the page: with or without data-category attributes,
\* and at most one of them marked active in the markup.
InitialButtons(hasData, marked) ==
  [i \in 1..Len(FilterCategories) |->
     [dataCategory |-> IF hasData THEN FilterCategories[i] ELSE "",
      textContent |-> FilterCategories[i],
      active |-> (i = marked),
      ariaPressed |-> ""]]

\* index of the button the markup marks active: All, or Birds
MarkedButtons == {1, 3}

\* most keydown listeners the model tells apart on #timeline
MaxListeners == 2

\* the timeline element as the TimelineRenderer constructor finds it
NoListeners == [click |-> 0, keydown |-> 0]

\* addEventListener('keydown', this.handleKeydown.bind(this)): bind makes a
\* new function at every call, so the listener is added beside the earlier ones
addKeydownListener(listeners) ==
  [listeners EXCEPT !.keydown = Min({listeners.keydown + 1, MaxListeners})]

\* TimelineRenderer.setupEventListeners: onEventClick is the same function
\* at every call, which addEventListener registers once
setupEventListeners(listeners) ==
  addKeydownListener([listeners EXCEPT !.click = 1])

\* TimelineRenderer.clearTimeline: removes the click listener
clearTimeline(listeners) == [listeners EXCEPT !.click = 0]

\* the listeners on #timeline after render(events): an empty list returns
\* before setupEventListeners
renderListeners(listeners, events) ==
  IF events = <<>> THEN clearTimeline(listeners)
  ELSE setupEventListeners(clearTimeline(listeners))

InitCommon ==
  /\ started = 0
  /\ pending = {}
  /\ latestLoad = NotSettled(FALSE)
  /\ last = Ran("construct")
  /\ timeline = Region("initial", <<>>, "")
  /\ timelineListeners = NoListeners
  /\ loadingDisplay = "initial"
  /\ modalComponent = [isOpen |-> FALSE, currentEvent |-> NoEvent]
  /\ bodyOverflow = ""
  /\ activeElement = "elsewhere"
  /\ hook = [events |-> <<>>, isLoading |-> TRUE, error |-> null, activeFilter |-> "All"]
  /\ mounted = FALSE
  /\ useModal = [isOpen |-> FALSE, selectedEvent |-> NoEvent]
  /\ timelineEvents = [kind |-> "array", items |-> <<>>]
  /\ listenersReady = FALSE
  /\ modal = [hidden |-> TRUE, body |-> Raw(NoEvent)]

\* The theme before anything has initialised it: the field initialisers, the
\* page as served, and the browser's storage and colour-scheme preference.
InitThemeCommon ==
  /\ themeComponent = [currentTheme |-> "light"]
  /\ useTheme = [theme |-> "light"]
  /\ bodyDark = FALSE
  /\ metaThemeColor = ""
  /\ toggleButton = [textContent |-> "", ariaLabel |-> ""]
  /\ userChose = FALSE

\* the elements the application looks up in the document when it starts
MountPoints == {"timeline", "modal", "modalContent", "themeToggle", "filterButtons"}

\* `components`: app is "none" until the application is constructed, then
\* "constructed" or "failed"; a component's field tells whether its
\* constructor ran to its end (for the filter and theme components, whether
\* their listeners are attached)
Components(app, timelineRenderer, modalComponent_, filterComponent_, themeComponent_) ==
  [app |-> app, timelineRenderer |-> timelineRenderer, modalComponent |-> modalComponent_,
   filterComponent |-> filterComponent_, themeComponent |-> themeComponent_]

InitApp(hasData, marked) ==
  /\ impl \in Implementations
  /\ mounts = MountPoints
  /\ components = Components("constructed", TRUE, TRUE, TRUE, TRUE)
  /\ filterButtons = InitialButtons(hasData, marked)
  /\ filterComponent =
       [allEvents |-> <<>>, currentFilter |-> initializeActiveFilter(filterButtons)]
  /\ appState =
       [events |-> <<>>, filter |-> [activeCategory |-> "All", filteredEvents |-> <<>>],
        theme |-> "light", isLoading |-> FALSE, error |-> null]
  /\ InitCommon
  /\ InitThemeCommon

\* A page whose storage holds no theme and whose system prefers light: the
\* ThemeComponent the application constructed found nothing to change.
Init ==
  /\ \E hasData \in BOOLEAN, marked \in MarkedButtons :
       /\ InitApp(hasData, marked)
       /\ impl /= "vanilla" => hasData /\ marked = 1
  /\ themeReady = (impl = "vanilla")
  /\ storage = [value |-> null, fails |-> FALSE]
  /\ systemDark = FALSE

\* ------------------------------------------------------------------------
\* ExtinctionTimelineApp
\* ------------------------------------------------------------------------

\* initialize() up to its await: setLoadingState(true), then the fetch is issued
Initialize ==
  /\ impl = "vanilla"
  /\ components.app = "constructed"
  /\ started < MaxLoads
  /\ appState' = [appState EXCEPT !.isLoading = TRUE]
  /\ loadingDisplay' = "block"
  /\ started' = started + 1
  /\ pending' = pending \cup {started + 1}
  /\ latestLoad' = NotSettled(pending /= {})
  /\ last' = Ran("initialize")
  /\ UNCHANGED <<impl, mounts, components, themeVars, filterComponent, filterButtons, timeline,
                 timelineListeners, modalComponent,
                 bodyOverflow, activeElement, reactVars, legacyVars>>

\* the continuation with its last two renderings exchanged: the timeline is
\* left as the filter component rendered it
InitializeLoadedFilteredLast(events) ==
  LET filtered == getFilteredEvents(events, filterComponent.currentFilter)
  IN  /\ appState' =
           [appState EXCEPT !.events = events,
                            !.filter = [activeCategory |-> "All", filteredEvents |-> filtered],
                            !.error = null,
                            !.isLoading = FALSE]
      /\ filterComponent' = [filterComponent EXCEPT !.allEvents = events]
      /\ filterButtons' = updateButtonCounts(filterButtons, events)
      /\ timeline' = render(filtered)
      /\ timelineListeners' = renderListeners(renderListeners(timelineListeners, events),
                                              filtered)
      /\ loadingDisplay' = "none"

\* initialize() after the await, the load having produced `events`
InitializeLoaded(events) ==
  LET filtered == getFilteredEvents(events, filterComponent.currentFilter)
  IN  \* updateAppState; updateEvents -> applyCurrentFilter -> handleFilterChange
      /\ appState' =
           [appState EXCEPT !.events = events,
                            !.filter = [activeCategory |-> "All", filteredEvents |-> filtered],
                            !.error = null,
                            !.isLoading = FALSE]
      /\ filterComponent' = [filterComponent EXCEPT !.allEvents = events]
      /\ filterButtons' = updateButtonCounts(filterButtons, events)
      \* handleFilterChange rendered `filtered`; renderTimeline(events) replaces it
      /\ timeline' = render(events)
      /\ timelineListeners' = renderListeners(renderListeners(timelineListeners, filtered),
                                              events)
      /\ loadingDisplay' = "none"

\* an error handler that leaves the loading indicator as it is
handleApplicationErrorStillLoading(message) ==
  /\ appState' = [appState EXCEPT !.error = message]
  /\ timeline' = renderError(message)
  /\ UNCHANGED <<filterComponent, filterButtons, timelineListeners, loadingDisplay>>

\* handleApplicationError(error)
handleApplicationError(message) ==
  /\ appState' = [appState EXCEPT !.error = message, !.isLoading = FALSE]
  /\ timeline' = renderError(message)
  /\ loadingDisplay' = "none"
  /\ UNCHANGED <<filterComponent, filterButtons, timelineListeners>>

\* The continuation of initialize() for load `token`, whose fetch settled with
\* `response`.
InitializeSettle(token, response) ==
  /\ impl = "vanilla"
  /\ token \in pending
  /\ \E bound \in BOOLEAN :
       LET result == fetchEvents(response, bound)
       IN  /\ IF result.ok THEN InitializeLoaded(result.events)
              ELSE handleApplicationError(result.message)
           /\ latestLoad' = IF token = started THEN Settled(latestLoad, result)
                            ELSE latestLoad
  /\ pending' = pending \ {token}
  /\ last' = RanLoad("settle", token, response)
  /\ UNCHANGED <<impl, mounts, components, themeVars, started, modalComponent, bodyOverflow, activeElement, reactVars, legacyVars>>

\* a filter change that keeps the filtered list as the loaded events
setActiveFilterOverEvents(category) ==
  IF filterComponent.currentFilter = category
  THEN UNCHANGED <<appState, filterComponent, filterButtons, timeline, timelineListeners>>
  ELSE LET filtered == getFilteredEvents(filterComponent.allEvents, category)
       IN  /\ filterComponent' = [allEvents |-> filtered, currentFilter |-> category]
           /\ appState' = [appState EXCEPT !.events = filtered,
                                           !.filter.filteredEvents = filtered]
           /\ timeline' = render(filtered)
           /\ timelineListeners' = renderListeners(timelineListeners, filtered)
           /\ filterButtons' =
                updateButtonCounts(updateActiveButton(filterButtons, category),
                                   filterComponent.allEvents)

\* FilterComponent.setActiveFilter(category), with the handleFilterChange it
\* triggers
setActiveFilter(category) ==
  IF filterComponent.currentFilter = category
  THEN UNCHANGED <<appState, filterComponent, filterButtons, timeline, timelineListeners>>
  ELSE LET filtered == getFilteredEvents(filterComponent.allEvents, category)
       IN  /\ filterComponent' = [filterComponent EXCEPT !.currentFilter = category]
           /\ appState' = [appState EXCEPT !.filter.filteredEvents = filtered]
           \* renderTimeline returns at once when the application holds no renderer
           /\ timeline' = IF components.timelineRenderer THEN render(filtered) ELSE timeline
           /\ timelineListeners' =
                IF components.timelineRenderer
                THEN renderListeners(timelineListeners, filtered)
                ELSE timelineListeners
           /\ filterButtons' =
                updateButtonCounts(updateActiveButton(filterButtons, category),
                                   filterComponent.allEvents)

\* click on the i-th filter button: handleFilterClick
handleFilterClick(i) ==
  /\ impl = "vanilla"
  /\ components.filterComponent
  /\ i \in DOMAIN filterButtons
  /\ LET category == getButtonCategory(filterButtons[i])
     IN  /\ IF category = null
            THEN UNCHANGED <<appState, filterComponent, filterButtons, timeline, timelineListeners>>
            ELSE setActiveFilter(category)
         /\ last' = [RanCategory("filterClick", FilterCategories[i])
                     EXCEPT !.renders = IF category = null
                                           \/ filterComponent.currentFilter = category
                                        THEN 0
                                        ELSE 1]
  /\ activeElement' = "elsewhere"
  /\ UNCHANGED <<impl, mounts, components, themeVars, loadVars, loadingDisplay, modalComponent, bodyOverflow,
                 reactVars, legacyVars>>

\* find(e => e.id === eventId): the first event with that id, or none
findById(events, eventId) ==
  LET hits == {k \in 1..Len(events) : events[k].id = eventId}
  IN  IF hits = {} THEN NoEvent ELSE events[Min(hits)]

\* The elements of the modal that take the focus, in document order: the
\* close button createModalBody puts first (EventModal renders the same
\* markup); nothing else in the modal is a button, a field, a link or has a
\* tabindex.
getFocusableElements == <<"close-btn">>

\* ModalComponent.manageFocus, and the focus effect of EventModal: the close
\* button takes the focus
manageFocus == "close-btn"

\* ModalComponent.restoreFocus blurs the focused element; the close button
\* EventModal unmounts leaves the focus on the body
restoreFocus == "elsewhere"

\* where the browser moves the focus for a Tab no handler prevented: off the
\* modal's one focusable element, and from elsewhere to any element
TabTargets(active) ==
  IF active = "close-btn" THEN {"elsewhere"} ELSE {"close-btn", "elsewhere"}

\* Tab handling that prevents nothing: the browser moves the focus
handleTabNavigationNone(active, shiftKey, next) == next

\* ModalComponent.handleTabNavigation, and EventModal.trapFocus: the element
\* focused after a Tab the browser would answer by focusing `next`
handleTabNavigation(active, shiftKey, next) ==
  LET focusableElements == getFocusableElements
      firstElement == focusableElements[1]
      lastElement == focusableElements[Len(focusableElements)]
  IN  IF focusableElements = <<>> THEN next
      ELSE IF shiftKey THEN (IF active = firstElement THEN lastElement ELSE next)
      ELSE IF active = lastElement THEN firstElement
      ELSE next

\* open() that leaves an open modal as it is
modalOpenOnce(event) ==
  IF modalComponent.isOpen THEN UNCHANGED <<modalComponent, bodyOverflow, activeElement>>
  ELSE /\ modalComponent' = [isOpen |-> TRUE, currentEvent |-> event]
       /\ bodyOverflow' = "hidden"
       /\ activeElement' = manageFocus

\* ModalComponent.open(event)
modalOpen(event) ==
  /\ modalComponent' = [isOpen |-> TRUE, currentEvent |-> event]
  /\ bodyOverflow' = "hidden"
  /\ activeElement' = manageFocus

\* close() without the reset of currentEvent
modalCloseKeepsEvent ==
  IF ~modalComponent.isOpen THEN UNCHANGED <<modalComponent, bodyOverflow, activeElement>>
  ELSE /\ modalComponent' = [modalComponent EXCEPT !.isOpen = FALSE]
       /\ bodyOverflow' = ""
       /\ activeElement' = restoreFocus

\* ModalComponent.close()
modalClose ==
  IF ~modalComponent.isOpen THEN UNCHANGED <<modalComponent, bodyOverflow, activeElement>>
  ELSE /\ modalComponent' = [isOpen |-> FALSE, currentEvent |-> NoEvent]
       /\ bodyOverflow' = ""
       /\ activeElement' = restoreFocus

\* NaN, which equals no id
NaN == NoId - 1

\* parseInt(text): the number a string of digits denotes, NaN for any other
\* text of the universe

parseInt(text) ==
  LET ids == {e.id : e \in ValidEvents} \cup {NoId}
  IN  IF \E n \in ids : ToString(n) = text
      THEN CHOOSE n \in ids : ToString(n) = text
      ELSE NaN

\* a lookup in what the filter left of the events
lookupInFiltered == appState.filter.filteredEvents

\* the collection handleTimelineClick looks the event up in: appState.events
lookupCollection == appState.events

\* handleTimelineClick for a click inside the i-th article: the id comes from
\* the article's data-event-id, '0' when the attribute is empty
timelineClick(i) ==
  LET eventId == parseInt(ToString(timeline.entries[i].id))
      eventData == findById(lookupCollection, eventId)
  IN  IF eventData /= NoEvent THEN modalOpen(eventData)
      ELSE /\ activeElement' = "elsewhere"
           /\ UNCHANGED <<modalComponent, bodyOverflow>>

\* what a handler of the timeline leaves alone
timelineFrame ==
  UNCHANGED <<impl, mounts, components, themeVars, loadVars, appState, filterComponent, filterButtons, timeline,
              timelineListeners, loadingDisplay, reactVars, legacyVars>>

\* click on the i-th rendered article: handleTimelineClick
handleTimelineClick(i) ==
  /\ impl = "vanilla"
  /\ timeline.kind = "events"
  /\ i \in 1..Len(timeline.entries)
  /\ timelineClick(i)
  /\ LET eventData ==
           findById(lookupCollection, parseInt(ToString(timeline.entries[i].id)))
     IN  last' = [RanEvent(IF eventData /= NoEvent THEN "open" ELSE "timelineClick",
                           eventData, modalComponent.currentEvent)
                  EXCEPT !.entry = i, !.activations = timelineListeners.click]
  /\ timelineFrame

\* keys a user presses
Keys == {"Enter", " ", "Escape", "a"}

\* A key pressed on the i-th article.  TimelineRenderer.handleKeydown clicks
\* the article for Enter and Space; render() adds this listener anew each
\* time, so that the article is clicked once per rendering so far, and opening
\* the same event again changes nothing.  The keydown then reaches the
\* document, where ModalComponent.handleKeyDown closes an open modal on Escape.
handleKeydown(i, key) ==
  /\ impl = "vanilla"
  /\ timeline.kind = "events"
  /\ i \in 1..Len(timeline.entries)
  /\ activeElement = "elsewhere"
  /\ IF key = "Enter" \/ key = " " THEN timelineClick(i)
     ELSE IF key = "Escape" THEN modalClose
     ELSE UNCHANGED <<modalComponent, bodyOverflow, activeElement>>
  /\ last' = [RanEvent("keydown", timeline.entries[i], modalComponent.currentEvent)
              EXCEPT !.entry = i, !.category = key,
                     !.activations = IF key = "Enter" \/ key = " "
                                     THEN timelineListeners.keydown * timelineListeners.click
                                     ELSE 0]
  /\ timelineFrame

\* click on the "Learn More" button of the i-th article: the click bubbles to
\* the timeline, where closest('.event') finds the article
learnMoreClick(i) ==
  /\ impl = "vanilla"
  /\ timeline.kind = "events"
  /\ i \in 1..Len(timeline.entries)
  /\ timelineClick(i)
  /\ last' = [RanEvent("learnMore", timeline.entries[i], modalComponent.currentEvent)
              EXCEPT !.entry = i, !.activations = timelineListeners.click]
  /\ timelineFrame

\* a backdrop handler that closes whatever was clicked
handleBackdropClickAnywhere(target) == modalClose

\* ModalComponent.handleBackdropClick: the click listener of the modal; a
\* click inside the modal content never reaches it (stopPropagation)
handleBackdropClick(target) ==
  IF target = "overlay" THEN modalClose
  ELSE /\ activeElement' = "elsewhere"
       /\ UNCHANGED <<modalComponent, bodyOverflow>>

\* what a click on the displayed modal can hit
ClickTargets == {"overlay", "content"}

\* click on the displayed modal, on the overlay or inside its content
modalClick(target) ==
  /\ impl = "vanilla"
  /\ modalComponent.isOpen
  /\ handleBackdropClick(target)
  /\ last' = [RanEvent("modalClick", NoEvent, modalComponent.currentEvent)
              EXCEPT !.category = target]
  /\ timelineFrame

\* ModalComponent.handleKeyDown: the keydown listener of the document, for a
\* key pressed outside the timeline
modalHandleKeyDown(key) ==
  /\ impl = "vanilla"
  /\ IF modalComponent.isOpen /\ key = "Escape" THEN modalClose
     ELSE UNCHANGED <<modalComponent, bodyOverflow, activeElement>>
  /\ last' = [RanEvent("modalKeydown", NoEvent, modalComponent.currentEvent)
              EXCEPT !.category = key]
  /\ timelineFrame

\* Tab, with or without Shift, pressed while the modal is open:
\* ModalComponent.handleKeyDown -> handleTabNavigation
modalTab(shiftKey) ==
  /\ impl = "vanilla"
  /\ modalComponent.isOpen
  /\ \E next \in TabTargets(activeElement) :
       activeElement' = handleTabNavigation(activeElement, shiftKey, next)
  /\ last' = [RanCategory("tab", IF shiftKey THEN "Shift+Tab" ELSE "Tab")
              EXCEPT !.focus = activeElement]
  /\ UNCHANGED <<modalComponent, bodyOverflow>>
  /\ timelineFrame

\* the dismiss control, or close() itself
ModalClose ==
  /\ impl = "vanilla"
  /\ modalClose
  /\ last' = RanEvent("close", NoEvent, modalComponent.currentEvent)
  /\ UNCHANGED <<impl, mounts, components, themeVars, loadVars, appState, filterComponent, filterButtons, timeline,
                 timelineListeners, loadingDisplay, reactVars, legacyVars>>

\* ------------------------------------------------------------------------
\* React: useExtinctionEvents, useModal, Timeline
\* ------------------------------------------------------------------------

\* useMemo filteredEvents
filteredEvents(events, activeFilter) ==
  IF activeFilter = "All" THEN events ELSE filterByCategory(events, activeFilter)

\* App.eventCounts
eventCounts(events) ==
  countInto([c \in FilterCategorySet |-> IF c = "All" THEN Len(events) ELSE 0], events)

\* `if (error)`: null and the empty string are falsy
truthy(error) == error /= null /\ error /= ""

\* What the Timeline component returns for the hook's current state.
Timeline(events, isLoading, error) ==
  IF isLoading THEN Region("loading", <<>>, "")
  ELSE IF truthy(error) THEN Region("error", <<>>, error)
  ELSE IF Len(events) = 0 THEN Region("empty", <<>>, "")
  ELSE Region("events", events, "")

TimelineView ==
  Timeline(filteredEvents(hook.events, hook.activeFilter), hook.isLoading, hook.error)

\* fetchEvents() up to its await; op is "mount" (the mount effect) or "refetch"
HookFetch(op) ==
  /\ impl = "react"
  /\ started < MaxLoads
  /\ mounted <=> op = "refetch"
  /\ hook' = [hook EXCEPT !.isLoading = TRUE, !.error = null]
  /\ mounted' = TRUE
  /\ started' = started + 1
  /\ pending' = pending \cup {started + 1}
  /\ latestLoad' = NotSettled(pending /= {})
  /\ last' = Ran(op)
  /\ UNCHANGED <<impl, mounts, components, themeVars, vanillaVars, timeline, bodyOverflow, activeElement, useModal, legacyVars>>

\* fetchEvents() for load `token` after the await: setEvents or setError, then
\* the finally block
HookSettle(token, response) ==
  /\ impl = "react"
  /\ token \in pending
  /\ LET result == hookFetchResult(response)
     IN  /\ hook' = IF result.ok
                    THEN [hook EXCEPT !.events = result.events, !.isLoading = FALSE]
                    ELSE [hook EXCEPT !.error = result.message, !.isLoading = FALSE]
         /\ latestLoad' = IF token = started THEN Settled(latestLoad, result)
                          ELSE latestLoad
  /\ pending' = pending \ {token}
  /\ last' = RanLoad("settle", token, response)
  /\ UNCHANGED <<impl, mounts, components, themeVars, started, vanillaVars, timeline, bodyOverflow, activeElement, mounted, useModal,
                 legacyVars>>

\* setActiveFilterSafe(filter), from a FilterPanel button
setActiveFilterSafe(filter) ==
  /\ impl = "react"
  /\ mounted
  /\ hook' = IF filter \in FilterCategorySet THEN [hook EXCEPT !.activeFilter = filter]
             ELSE hook
  \* a state set to the value it holds renders nothing
  /\ last' = [RanCategory("filterClick", filter)
              EXCEPT !.renders = IF hook' = hook THEN 0 ELSE 1]
  /\ UNCHANGED <<impl, mounts, components, themeVars, loadVars, vanillaVars, timeline, bodyOverflow, activeElement, mounted, useModal,
                 legacyVars>>

\* what a handler of the React timeline or modal leaves alone
useModalFrame ==
  UNCHANGED <<impl, mounts, components, themeVars, loadVars, vanillaVars, timeline, hook, mounted, legacyVars>>

\* The focus after a handler of a marker has opened the modal.  The focus
\* effect of EventModal runs when isOpen changes: it moves the focus to the
\* close button when the modal was closed before, and otherwise leaves it on
\* the marker.
focusEffect(wasOpen) == IF wasOpen THEN "elsewhere" ELSE manageFocus

\* click on the i-th EventMarker: handleClick -> handleEventClick ->
\* openModal(event)
openModal(i) ==
  /\ impl = "react"
  /\ TimelineView.kind = "events"
  /\ i \in 1..Len(TimelineView.entries)
  /\ useModal' = [isOpen |-> TRUE, selectedEvent |-> TimelineView.entries[i]]
  /\ bodyOverflow' = "hidden"
  /\ activeElement' = focusEffect(useModal.isOpen)
  /\ last' = [RanEvent("open", TimelineView.entries[i], useModal.selectedEvent)
              EXCEPT !.entry = i]
  /\ useModalFrame

\* The object React hands to an event handler.  It is no ExtinctionEvent: its
\* id, year, title and the other fields read undefined.
SyntheticEvent == ExtinctionEvent(NaN, NaN, "undefined", "undefined")

\* EventMarker.handleKeyDown for a key pressed on the i-th marker.  Its
\* parameter is named `event` like the prop, so that onClick(event) passes the
\* keyboard event on to openModal.  The keydown then reaches the document,
\* where the Escape listeners of useModal and EventModal close an open modal.
markerKeyDown(i, key) ==
  /\ impl = "react"
  /\ TimelineView.kind = "events"
  /\ i \in 1..Len(TimelineView.entries)
  /\ activeElement = "elsewhere"
  /\ IF key = "Enter" \/ key = " "
     THEN /\ useModal' = [isOpen |-> TRUE, selectedEvent |-> SyntheticEvent]
          /\ bodyOverflow' = "hidden"
          /\ activeElement' = focusEffect(useModal.isOpen)
     ELSE IF key = "Escape" /\ useModal.isOpen
     THEN /\ useModal' = [isOpen |-> FALSE, selectedEvent |-> NoEvent]
          /\ bodyOverflow' = ""
          /\ activeElement' = restoreFocus
     ELSE UNCHANGED <<useModal, bodyOverflow, activeElement>>
  /\ last' = [RanEvent("keydown", TimelineView.entries[i], useModal.selectedEvent)
              EXCEPT !.entry = i, !.category = key]
  /\ useModalFrame

\* EventMarker.handleLearnMoreClick on the i-th marker: stopPropagation, then
\* onClick(event) with the mouse event its parameter names
markerLearnMoreClick(i) ==
  /\ impl = "react"
  /\ TimelineView.kind = "events"
  /\ i \in 1..Len(TimelineView.entries)
  /\ useModal' = [isOpen |-> TRUE, selectedEvent |-> SyntheticEvent]
  /\ bodyOverflow' = "hidden"
  /\ activeElement' = focusEffect(useModal.isOpen)
  /\ last' = [RanEvent("learnMore", TimelineView.entries[i], useModal.selectedEvent)
              EXCEPT !.entry = i]
  /\ useModalFrame

\* EventModal.handleBackdropClick: click on the rendered modal, on the overlay
\* or inside its content
eventModalClick(target) ==
  /\ impl = "react"
  /\ useModal.isOpen
  /\ IF target = "overlay"
     THEN /\ useModal' = [isOpen |-> FALSE, selectedEvent |-> NoEvent]
          /\ bodyOverflow' = ""
     ELSE UNCHANGED <<useModal, bodyOverflow>>
  /\ activeElement' = "elsewhere"
  /\ last' = [RanEvent("modalClick", NoEvent, useModal.selectedEvent)
              EXCEPT !.category = target]
  /\ useModalFrame

\* a key pressed outside the timeline: the keydown listeners useModal and
\* EventModal keep on the document while the modal is open both close it on
\* Escape
eventModalKeyDown(key) ==
  /\ impl = "react"
  /\ mounted
  /\ IF useModal.isOpen /\ key = "Escape"
     THEN /\ useModal' = [isOpen |-> FALSE, selectedEvent |-> NoEvent]
          /\ bodyOverflow' = ""
          /\ activeElement' = restoreFocus
     ELSE UNCHANGED <<useModal, bodyOverflow, activeElement>>
  /\ last' = [RanEvent("modalKeydown", NoEvent, useModal.selectedEvent)
              EXCEPT !.category = key]
  /\ useModalFrame

\* Tab, with or without Shift, pressed while the modal is open: the keydown
\* listener of EventModal -> trapFocus
eventModalTab(shiftKey) ==
  /\ impl = "react"
  /\ useModal.isOpen
  /\ \E next \in TabTargets(activeElement) :
       activeElement' = handleTabNavigation(activeElement, shiftKey, next)
  /\ last' = [RanCategory("tab", IF shiftKey THEN "Shift+Tab" ELSE "Tab")
              EXCEPT !.focus = activeElement]
  /\ UNCHANGED <<useModal, bodyOverflow>>
  /\ useModalFrame

closeModal ==
  /\ impl = "react"
  /\ mounted
  /\ useModal' = [isOpen |-> FALSE, selectedEvent |-> NoEvent]
  /\ bodyOverflow' = ""
  /\ activeElement' = IF useModal.isOpen THEN restoreFocus ELSE activeElement
  /\ last' = RanEvent("close", NoEvent, useModal.selectedEvent)
  /\ UNCHANGED <<impl, mounts, components, themeVars, loadVars, vanillaVars, timeline, hook, mounted, legacyVars>>

\* ------------------------------------------------------------------------
\* Legacy script
\* ------------------------------------------------------------------------

\* a.year - b.year on parsed objects; NaN counts as 0 in a comparator
rawCompareYear(a, b) ==
  IF a.year.t = "number" /\ b.year.t = "number" THEN a.year.n - b.year.n ELSE 0

RECURSIVE rawInsertSorted(_, _)
rawInsertSorted(sorted, x) ==
  IF sorted = <<>> THEN <<x>>
  ELSE IF rawCompareYear(Head(sorted), x) > 0 THEN <<x>> \o sorted
  ELSE <<Head(sorted)>> \o rawInsertSorted(Tail(sorted), x)

RECURSIVE rawSortFrom(_, _)
rawSortFrom(sorted, rest) ==
  IF rest = <<>> THEN sorted
  ELSE rawSortFrom(rawInsertSorted(sorted, Head(rest)), Tail(rest))

\* loadEvents() once fetch() has settled: what timelineEvents becomes, and
\* whether loadEvents returned (ok) or threw.
loadEvents(response) ==
  IF ~responseOk(response) \/ response.data.top = "null"
  THEN [ok |-> FALSE, assigned |-> FALSE, kind |-> "", items |-> <<>>]
  ELSE IF response.data.ev /= "array"
  THEN [ok |-> FALSE, assigned |-> TRUE, kind |-> response.data.ev, items |-> <<>>]
  ELSE [ok |-> TRUE, assigned |-> TRUE, kind |-> "array",
        items |-> rawSortFrom(<<>>, response.data.events)]

\* renderTimeline(filteredEvents)
renderTimeline(eventsToRender) ==
  IF Len(eventsToRender) = 0 THEN Region("empty", <<>>, "")
  ELSE Region("events", eventsToRender, "")

showErrorMessage(message) == Region("error", <<>>, message)

\* initializeApp() up to the await in loadEvents()
initializeApp ==
  /\ impl = "legacy"
  /\ started = 0
  /\ started' = 1
  /\ pending' = {1}
  /\ latestLoad' = NotSettled(pending /= {})
  /\ last' = Ran("initialize")
  /\ UNCHANGED <<impl, mounts, components, themeVars, vanillaVars, timeline, bodyOverflow, activeElement, reactVars, legacyVars>>

\* loadEvents() after the await, and the rest of initializeApp()
LegacySettle(response) ==
  /\ impl = "legacy"
  /\ 1 \in pending
  /\ LET loaded == loadEvents(response)
     IN  /\ timelineEvents' = IF loaded.assigned
                              THEN [kind |-> loaded.kind, items |-> loaded.items]
                              ELSE timelineEvents
         /\ timeline' =
              IF loaded.ok THEN renderTimeline(loaded.items)
              ELSE showErrorMessage("Failed to load timeline data. Please try again later.")
         /\ listenersReady' = loaded.ok
         /\ latestLoad' =
              Settled(latestLoad, IF loaded.ok THEN Loaded(<<>>) ELSE Thrown(""))
  /\ pending' = {}
  /\ last' = RanLoad("settle", 1, response)
  /\ UNCHANGED <<impl, mounts, components, themeVars, started, vanillaVars, bodyOverflow, activeElement, reactVars, modal>>

RECURSIVE rawFilterByCategory(_, _)
rawFilterByCategory(events, filterCategory) ==
  IF events = <<>> THEN <<>>
  ELSE (IF Head(events).category = JsStr(filterCategory) THEN <<Head(events)>> ELSE <<>>)
         \o rawFilterByCategory(Tail(events), filterCategory)

\* the filtering of the legacy handleFilterClick
legacyFiltered(events, filterCategory) ==
  IF filterCategory = "All" THEN events ELSE rawFilterByCategory(events, filterCategory)

\* click on the filter button whose text is filterCategory
legacyHandleFilterClick(filterCategory) ==
  /\ impl = "legacy"
  /\ listenersReady
  /\ timeline' = renderTimeline(legacyFiltered(timelineEvents.items, filterCategory))
  /\ filterButtons' =
       [k \in DOMAIN filterButtons |->
          [filterButtons[k] EXCEPT !.active = (filterButtons[k].textContent = filterCategory)]]
  /\ activeElement' = "elsewhere"
  /\ last' = [RanCategory("filterClick", filterCategory) EXCEPT !.renders = 1]
  /\ UNCHANGED <<impl, mounts, components, themeVars, loadVars, appState, filterComponent, loadingDisplay,
                 modalComponent, timelineListeners, bodyOverflow, reactVars, legacyVars>>

\* the text of an article's data-event-id attribute: `${event.id}`
eventIdText(event) == IF event.id.t = "number" THEN ToString(event.id.n) ELSE event.id.s

\* timelineEvents.find(e => e.id === eventId): the first element whose id is
\* that number, or none
rawFindById(events, eventId) ==
  LET hits == {k \in 1..Len(events) : events[k].id = JsNum(eventId)}
  IN  IF hits = {} THEN Raw(NoEvent) ELSE events[Min(hits)]

\* what a click inside an article of the legacy timeline can hit
LegacyTargets == {"marker", "learnMore", "content"}

\* what a handler of the legacy modal leaves alone
legacyModalFrame ==
  UNCHANGED <<impl, mounts, components, themeVars, loadVars, vanillaVars, timeline, bodyOverflow, reactVars,
              timelineEvents, listenersReady>>

\* the legacy handleTimelineClick for a click inside the i-th article, and the
\* openModal(eventData) it leads to
legacyHandleTimelineClick(i, target) ==
  /\ impl = "legacy"
  /\ listenersReady
  /\ timeline.kind = "events"
  /\ i \in 1..Len(timeline.entries)
  /\ LET eventId == parseInt(eventIdText(timeline.entries[i]))
         eventData == rawFindById(timelineEvents.items, eventId)
         activates == target \in {"marker", "learnMore"}
     IN  /\ modal' = IF activates /\ eventData /= Raw(NoEvent)
                     THEN [hidden |-> FALSE, body |-> eventData]
                     ELSE modal
         \* openModal ends with newCloseBtn.focus(), on a span that cannot
         \* take the focus: it stays with what was clicked
         /\ activeElement' = "elsewhere"
         /\ last' = [RanEvent(IF ~activates THEN "contentClick"
                               ELSE IF eventData /= Raw(NoEvent) THEN "open"
                               ELSE "timelineClick",
                               asExtinctionEvent(eventData),
                               IF modal.hidden THEN NoEvent ELSE asExtinctionEvent(modal.body))
                      EXCEPT !.entry = i, !.category = target]
  /\ legacyModalFrame

\* the legacy closeModal(): the close button, a click on the backdrop, or
\* Escape while the modal is not hidden
legacyCloseModal ==
  /\ impl = "legacy"
  /\ listenersReady
  /\ ~modal.hidden
  /\ modal' = [modal EXCEPT !.hidden = TRUE]
  /\ last' = RanEvent("close", NoEvent, asExtinctionEvent(modal.body))
  /\ UNCHANGED activeElement
  /\ legacyModalFrame

\* ------------------------------------------------------------------------
\* Theme: ThemeComponent, useTheme, and the legacy toggleTheme
\* ------------------------------------------------------------------------

Themes == {"light", "dark"}

\* what localStorage may hold under the theme key: nothing, a theme, or a
\* string that is no theme
StorageValues == {null, "light", "dark", "blue"}

isValidTheme(value) == value = "light" \/ value = "dark"

\* a configuration that gives every theme the icon and label of light
themeConfigLight(theme) ==
  [icon |-> "moon", label |-> "Switch to dark theme", className |-> ""]

\* ThemeComponent.themeConfig[theme]; the icons are named, not drawn: "moon"
\* for the light theme's, "sun" for the dark theme's
themeConfig(theme) ==
  IF theme = "dark"
  THEN [icon |-> "sun", label |-> "Switch to light theme", className |-> "dark-theme"]
  ELSE [icon |-> "moon", label |-> "Switch to dark theme", className |-> ""]

themeColor(theme) == IF theme = "dark" THEN "#1a1a1a" ELSE "#f5f5f5"

\* a save that stores light whatever the theme
saveThemePreferenceLight(theme) ==
  IF storage.fails THEN storage ELSE [storage EXCEPT !.value = "light"]

\* localStorage.setItem inside try/catch: storage as it is afterwards
saveThemePreference(theme) ==
  IF storage.fails THEN storage ELSE [storage EXCEPT !.value = theme]

\* a read of the storage that never finds a preference
loadThemePreferenceNone == null

\* localStorage.getItem inside try/catch; null unless a theme is stored
loadThemePreference ==
  IF storage.fails THEN null
  ELSE IF isValidTheme(storage.value) THEN storage.value ELSE null

detectSystemTheme == IF systemDark THEN "dark" ELSE "light"

\* a toggle whose new theme is dark whatever the current one
newThemeAlwaysDark(currentTheme) == "dark"

\* currentTheme === 'light' ? 'dark' : 'light'
newTheme(currentTheme) == IF currentTheme = "light" THEN "dark" ELSE "light"

\* a setTheme that saves whatever saveToStorage says
setThemeSaving(theme, saveToStorage) ==
  IF themeComponent.currentTheme = theme
  THEN UNCHANGED <<themeComponent, bodyDark, metaThemeColor, toggleButton, storage,
                   appState>>
  ELSE /\ themeComponent' = [currentTheme |-> theme]
       /\ bodyDark' = (theme = "dark")
       /\ metaThemeColor' = themeColor(theme)
       /\ toggleButton' = [textContent |-> themeConfig(theme).icon,
                           ariaLabel |-> themeConfig(theme).label]
       /\ storage' = saveThemePreference(theme)
       /\ appState' = [appState EXCEPT !.theme = theme]

\* ThemeComponent.setTheme(theme, saveToStorage), with the onThemeChange
\* handler of the application (handleThemeChange)
setTheme(theme, saveToStorage) ==
  IF themeComponent.currentTheme = theme
  THEN UNCHANGED <<themeComponent, bodyDark, metaThemeColor, toggleButton, storage,
                   appState>>
  ELSE /\ themeComponent' = [currentTheme |-> theme]
       /\ bodyDark' = (theme = "dark")
       /\ metaThemeColor' = themeColor(theme)
       /\ toggleButton' = [textContent |-> themeConfig(theme).icon,
                           ariaLabel |-> themeConfig(theme).label]
       /\ storage' = IF saveToStorage THEN saveThemePreference(theme) ELSE storage
       /\ appState' = [appState EXCEPT !.theme = theme]

\* what a ThemeComponent handler leaves alone
themeComponentFrame ==
  UNCHANGED <<impl, mounts, components, loadVars, filterComponent, filterButtons, timeline, timelineListeners,
              loadingDisplay, modalComponent, bodyOverflow, activeElement, reactVars, legacyVars, useTheme>>

\* the ThemeComponent constructor: setupEventListeners, initializeTheme
initializeTheme ==
  /\ impl = "vanilla"
  /\ ~themeReady
  /\ LET savedTheme == loadThemePreference
         initialTheme == IF savedTheme /= null THEN savedTheme ELSE detectSystemTheme
     IN  setTheme(initialTheme, FALSE)
  /\ themeReady' = TRUE
  /\ last' = RanTheme("initializeTheme", themeComponent.currentTheme)
  /\ UNCHANGED <<systemDark, userChose>>
  /\ themeComponentFrame

\* click, Enter or Space on the toggle button: toggleTheme()
toggleTheme ==
  /\ impl = "vanilla"
  /\ themeReady
  /\ setTheme(newTheme(themeComponent.currentTheme), TRUE)
  /\ last' = RanTheme("toggle", themeComponent.currentTheme)
  /\ userChose' = TRUE
  /\ UNCHANGED <<themeReady, systemDark>>
  /\ themeComponentFrame

\* setTheme(theme) called on the component
SetTheme(theme) ==
  /\ impl = "vanilla"
  /\ themeReady
  /\ setTheme(theme, TRUE)
  /\ last' = [RanTheme("setTheme", themeComponent.currentTheme) EXCEPT !.category = theme]
  /\ userChose' = TRUE
  /\ UNCHANGED <<themeReady, systemDark>>
  /\ themeComponentFrame

\* the change listener of the colour-scheme media query; event.matches is the
\* new preference
systemThemeChange ==
  /\ impl = "vanilla"
  /\ themeReady
  /\ systemDark' = ~systemDark
  /\ IF loadThemePreference = null
     THEN setTheme(IF ~systemDark THEN "dark" ELSE "light", FALSE)
     ELSE UNCHANGED <<themeComponent, bodyDark, metaThemeColor, toggleButton, storage,
                      appState>>
  /\ last' = RanTheme("systemChange", themeComponent.currentTheme)
  /\ UNCHANGED <<themeReady, userChose>>
  /\ themeComponentFrame

\* resetToSystemTheme(): setTheme(systemTheme), then removeItem in try/catch
resetToSystemTheme ==
  /\ impl = "vanilla"
  /\ themeReady
  /\ LET systemTheme == detectSystemTheme
     IN  IF themeComponent.currentTheme = systemTheme
         THEN UNCHANGED <<themeComponent, bodyDark, metaThemeColor, toggleButton, appState>>
         ELSE /\ themeComponent' = [currentTheme |-> systemTheme]
              /\ bodyDark' = (systemTheme = "dark")
              /\ metaThemeColor' = themeColor(systemTheme)
              /\ toggleButton' = [textContent |-> themeConfig(systemTheme).icon,
                                  ariaLabel |-> themeConfig(systemTheme).label]
              /\ appState' = [appState EXCEPT !.theme = systemTheme]
  /\ storage' = IF storage.fails THEN storage ELSE [storage EXCEPT !.value = null]
  /\ last' = RanTheme("reset", themeComponent.currentTheme)
  /\ userChose' = FALSE
  /\ UNCHANGED <<themeReady, systemDark>>
  /\ themeComponentFrame

\* what a useTheme handler leaves alone
useThemeFrame ==
  UNCHANGED <<impl, mounts, components, loadVars, vanillaVars, timeline, bodyOverflow, activeElement, reactVars, legacyVars,
              themeComponent, toggleButton>>

\* useTheme.applyTheme(theme)
applyTheme(theme) ==
  /\ bodyDark' = (theme = "dark")
  /\ metaThemeColor' = themeColor(theme)

\* useTheme: the effect that initialises the theme on mount
hookInitializeTheme ==
  /\ impl = "react"
  /\ ~themeReady
  /\ LET savedTheme == loadThemePreference
         initialTheme == IF savedTheme /= null THEN savedTheme ELSE detectSystemTheme
     IN  /\ useTheme' = [theme |-> initialTheme]
         /\ applyTheme(initialTheme)
  /\ themeReady' = TRUE
  /\ last' = RanTheme("initializeTheme", useTheme.theme)
  /\ UNCHANGED <<storage, systemDark, userChose>>
  /\ useThemeFrame

\* useTheme.setTheme(newTheme): setThemeState, applyTheme, saveTheme
hookSetTheme(theme) ==
  /\ useTheme' = [theme |-> theme]
  /\ applyTheme(theme)
  /\ storage' = saveThemePreference(theme)

\* useTheme.toggleTheme()
hookToggleTheme ==
  /\ impl = "react"
  /\ themeReady
  /\ hookSetTheme(newTheme(useTheme.theme))
  /\ last' = RanTheme("toggle", useTheme.theme)
  /\ userChose' = TRUE
  /\ UNCHANGED <<themeReady, systemDark>>
  /\ useThemeFrame

\* setTheme(theme) called on the hook's return value
HookSetTheme(theme) ==
  /\ impl = "react"
  /\ themeReady
  /\ hookSetTheme(theme)
  /\ last' = [RanTheme("setTheme", useTheme.theme) EXCEPT !.category = theme]
  /\ userChose' = TRUE
  /\ UNCHANGED <<themeReady, systemDark>>
  /\ useThemeFrame

\* useTheme.handleSystemThemeChange
hookSystemThemeChange ==
  /\ impl = "react"
  /\ themeReady
  /\ systemDark' = ~systemDark
  /\ IF loadThemePreference = null
     THEN /\ useTheme' = [theme |-> IF ~systemDark THEN "dark" ELSE "light"]
          /\ applyTheme(IF ~systemDark THEN "dark" ELSE "light")
     ELSE UNCHANGED <<useTheme, bodyDark, metaThemeColor>>
  /\ last' = RanTheme("systemChange", useTheme.theme)
  /\ UNCHANGED <<themeReady, storage, userChose>>
  /\ useThemeFrame

\* the theme of the legacy script is the body's class
legacyTheme == IF bodyDark THEN "dark" ELSE "light"

\* what a handler of the legacy script's theme leaves alone
legacyThemeFrame ==
  UNCHANGED <<impl, mounts, components, loadVars, vanillaVars, bodyOverflow, activeElement, reactVars, legacyVars,
              themeComponent, useTheme, metaThemeColor>>

\* the legacy initializeTheme(), which initializeApp() calls once the events
\* are loaded and the listeners are set; getItem is not guarded, and what it
\* throws ends in initializeApp's catch
legacyInitializeTheme ==
  /\ impl = "legacy"
  /\ ~themeReady
  /\ IF storage.fails
     THEN /\ timeline' =
               showErrorMessage("Failed to load timeline data. Please try again later.")
          /\ UNCHANGED <<bodyDark, toggleButton>>
     ELSE /\ bodyDark' = (bodyDark \/ storage.value = "dark")
          /\ toggleButton' =
               IF storage.value = "dark"
               THEN [textContent |-> "sun", ariaLabel |-> "Switch to light theme"]
               ELSE [textContent |-> "moon", ariaLabel |-> "Switch to dark theme"]
          /\ UNCHANGED timeline
  /\ themeReady' = TRUE
  /\ last' = [RanTheme("initializeTheme", legacyTheme) EXCEPT !.threw = storage.fails]
  /\ UNCHANGED <<storage, systemDark, userChose>>
  /\ legacyThemeFrame

\* the legacy toggleTheme(); setItem is not guarded and throws last
legacyToggleTheme ==
  /\ impl = "legacy"
  /\ themeReady
  /\ bodyDark' = ~bodyDark
  /\ toggleButton' =
       IF ~bodyDark THEN [textContent |-> "sun", ariaLabel |-> "Switch to light theme"]
       ELSE [textContent |-> "moon", ariaLabel |-> "Switch to dark theme"]
  /\ storage' = IF storage.fails THEN storage
                ELSE [storage EXCEPT !.value = IF ~bodyDark THEN "dark" ELSE "light"]
  \* setItem is not guarded: what it throws leaves toggleTheme
  /\ last' = [RanTheme("toggle", legacyTheme) EXCEPT !.threw = storage.fails]
  /\ userChose' = TRUE
  /\ UNCHANGED <<timeline, themeReady, systemDark>>
  /\ legacyThemeFrame

\* the system's colour-scheme preference changes; the legacy script does not
\* listen
legacySystemChange ==
  /\ impl = "legacy"
  /\ systemDark' = ~systemDark
  /\ last' = RanTheme("systemChange", legacyTheme)
  /\ UNCHANGED <<timeline, themeReady, bodyDark, toggleButton, storage, userChose>>
  /\ legacyThemeFrame

\* ------------------------------------------------------------------------
\* Startup: the construction of the application
\* ------------------------------------------------------------------------

\* the panel initializeApp's catch puts into #timeline
startupFailure == Region("failed", <<>>, "Application Failed to Load")

\* new ExtinctionTimelineApp(APP_CONFIG) inside initializeApp's try.  The
\* constructor builds the components in turn: the renderer and the modal
\* factories return null for a missing element; the ModalComponent, the
\* FilterComponent and the ThemeComponent constructors throw for a missing
\* content region, no filter button and no toggle button, each before it
\* attaches a listener; validateComponents throws for a null component.
\* What is thrown ends in initializeApp's catch, and initialize() is not
\* called.
Construct ==
  /\ impl = "vanilla"
  /\ components.app = "none"
  /\ LET hasTimeline == "timeline" \in mounts
         hasModal == "modal" \in mounts
         modalThrows == hasModal /\ "modalContent" \notin mounts
         filterThrows == ~modalThrows /\ "filterButtons" \notin mounts
         filterBuilt == ~modalThrows /\ ~filterThrows
         themeThrows == filterBuilt /\ "themeToggle" \notin mounts
         themeBuilt == filterBuilt /\ ~themeThrows
         failed == ~themeBuilt \/ ~hasTimeline \/ ~hasModal
         savedTheme == loadThemePreference
         initialTheme == IF savedTheme /= null THEN savedTheme ELSE detectSystemTheme
     IN  /\ components' = Components(IF failed THEN "failed" ELSE "constructed", hasTimeline,
                                     hasModal /\ ~modalThrows, filterBuilt, themeBuilt)
         /\ filterComponent' =
              IF filterBuilt
              THEN [filterComponent EXCEPT !.currentFilter = initializeActiveFilter(filterButtons)]
              ELSE filterComponent
         /\ IF themeBuilt THEN setTheme(initialTheme, FALSE)
            ELSE UNCHANGED <<themeComponent, bodyDark, metaThemeColor, toggleButton, storage,
                             appState>>
         /\ themeReady' = themeBuilt
         /\ timeline' = IF failed /\ hasTimeline THEN startupFailure ELSE timeline
  /\ last' = Ran("construct")
  /\ UNCHANGED <<impl, mounts, loadVars, filterButtons, timelineListeners, loadingDisplay,
                 modalComponent, bodyOverflow, activeElement, reactVars, legacyVars, useTheme,
                 systemDark, userChose>>

\* ------------------------------------------------------------------------
\* Retry: the "Try Again" button of the error panel
\* ------------------------------------------------------------------------

\* what the page holds besides the theme
CurrentPage ==
  [appState |-> appState, filterComponent |-> filterComponent,
   filterButtons |-> filterButtons, timeline |-> timeline,
   modalComponent |-> modalComponent, bodyOverflow |-> bodyOverflow,
   hook |-> hook, useModal |-> useModal]

\* a retry that starts the load again on the page as it stands
reloadKeepsPage(page) == page

\* location.reload(): the document is served again and its scripts start
\* over, so that nothing the page held survives
reload(page) ==
  [appState |->
     [events |-> <<>>, filter |-> [activeCategory |-> "All", filteredEvents |-> <<>>],
      theme |-> "light", isLoading |-> FALSE, error |-> null],
   filterComponent |-> [allEvents |-> <<>>, currentFilter |-> "All"],
   filterButtons |-> InitialButtons(TRUE, 1),
   timeline |-> Region("initial", <<>>, ""),
   modalComponent |-> [isOpen |-> FALSE, currentEvent |-> NoEvent],
   bodyOverflow |-> "",
   hook |-> [events |-> <<>>, isLoading |-> TRUE, error |-> null, activeFilter |-> "All"],
   useModal |-> [isOpen |-> FALSE, selectedEvent |-> NoEvent]]

\* click on the retry button TimelineRenderer.renderError put into the
\* timeline: the page reloads, the application is constructed and
\* initialize() runs up to its await
Retry ==
  /\ impl = "vanilla"
  /\ timeline.kind = "error"
  /\ LET page == reload(CurrentPage)
     IN  /\ appState' = [page.appState EXCEPT !.isLoading = TRUE]
         /\ filterComponent' = page.filterComponent
         /\ filterButtons' = page.filterButtons
         /\ timeline' = page.timeline
         /\ timelineListeners' = NoListeners
         /\ modalComponent' = page.modalComponent
         /\ bodyOverflow' = page.bodyOverflow
         /\ activeElement' = "elsewhere"
  /\ loadingDisplay' = "block"
  /\ started' = 1
  /\ pending' = {1}
  /\ latestLoad' = NotSettled(FALSE)
  /\ last' = RanCategory("retry", filterComponent.currentFilter)
  /\ UNCHANGED <<impl, mounts, components, themeVars, reactVars, legacyVars>>

\* click on the retry button of ErrorDisplay, whose onRetry the Timeline
\* component sets to window.location.reload(): the page reloads, App mounts
\* and the hook's mount effect calls fetchEvents()
HookRetry ==
  /\ impl = "react"
  /\ TimelineView.kind = "error"
  /\ LET page == reload(CurrentPage)
     IN  /\ hook' = [page.hook EXCEPT !.isLoading = TRUE, !.error = null]
         /\ useModal' = page.useModal
         /\ bodyOverflow' = page.bodyOverflow
         /\ activeElement' = "elsewhere"
  /\ mounted' = TRUE
  /\ started' = 1
  /\ pending' = {1}
  /\ latestLoad' = NotSettled(FALSE)
  /\ last' = RanCategory("retry", hook.activeFilter)
  /\ UNCHANGED <<impl, mounts, components, themeVars, vanillaVars, timeline, legacyVars>>

\* ------------------------------------------------------------------------
\* Specifications
\* ------------------------------------------------------------------------

\* values a caller can pass to setActiveFilterSafe: the enumeration and one
\* outsider
FilterInputs == FilterCategorySet \cup {"Fish"}

\* One page: the load the page starts with, and the user's clicks.
Next ==
  \/ started = 0 /\ Initialize
  \/ \E response \in Responses : InitializeSettle(1, response)
  \/ \E i \in 1..Len(FilterCategories) : handleFilterClick(i)
  \/ \E i \in 1..MaxEvents : handleTimelineClick(i)
  \/ \E i \in 1..MaxEvents, key \in Keys : handleKeydown(i, key)
  \/ \E i \in 1..MaxEvents : learnMoreClick(i)
  \/ \E target \in ClickTargets : modalClick(target)
  \/ \E key \in Keys : modalHandleKeyDown(key)
  \/ \E shiftKey \in BOOLEAN : modalTab(shiftKey)
  \/ ModalClose
  \/ started = 0 /\ HookFetch("mount")
  \/ \E response \in Responses : HookSettle(1, response)
  \/ \E filter \in FilterInputs : setActiveFilterSafe(filter)
  \/ \E i \in 1..MaxEvents : openModal(i)
  \/ \E i \in 1..MaxEvents, key \in Keys : markerKeyDown(i, key)
  \/ \E i \in 1..MaxEvents : markerLearnMoreClick(i)
  \/ \E target \in ClickTargets : eventModalClick(target)
  \/ \E key \in Keys : eventModalKeyDown(key)
  \/ \E shiftKey \in BOOLEAN : eventModalTab(shiftKey)
  \/ closeModal
  \/ initializeApp
  \/ \E response \in Responses : LegacySettle(response)
  \/ \E c \in FilterCategorySet : legacyHandleFilterClick(c)
  \/ \E i \in 1..MaxEvents, target \in LegacyTargets : legacyHandleTimelineClick(i, target)
  \/ legacyCloseModal

Spec == Init /\ [][Next]_vars

\* Repeated loads through initialize() and refetch(), which may overlap, with
\* filter changes in between.  A fetch settles with a payload of Tiger and
\* Dodo events, or with a 404.
RetryResponses ==
  {r \in Responses :
     /\ responseOk(r) => r.data.ev = "array"
     /\ \A k \in 1..Len(r.data.events) : r.data.events[k] \in {Raw(Tiger), Raw(Dodo)}}

InitRetry == Init /\ impl \in {"vanilla", "react"}

NextRetry ==
  \/ Initialize
  \/ \E token \in 1..MaxLoads, response \in RetryResponses :
       InitializeSettle(token, response)
  \/ \E i \in 1..Len(FilterCategories) : handleFilterClick(i)
  \/ \E op \in {"mount", "refetch"} : HookFetch(op)
  \/ \E token \in 1..MaxLoads, response \in RetryResponses : HookSettle(token, response)
  \/ \E filter \in FilterInputs : setActiveFilterSafe(filter)

SpecRetry == InitRetry /\ [][NextRetry]_vars

\* The theme alone, from before it is initialised, for every content of the
\* storage and either system preference.
InitTheme ==
  /\ InitApp(TRUE, 1)
  /\ themeReady = FALSE
  /\ storage \in [value : StorageValues, fails : BOOLEAN]
  /\ systemDark \in BOOLEAN

NextTheme ==
  \/ initializeTheme
  \/ toggleTheme
  \/ \E theme \in Themes : SetTheme(theme)
  \/ systemThemeChange
  \/ resetToSystemTheme
  \/ hookInitializeTheme
  \/ hookToggleTheme
  \/ \E theme \in Themes : HookSetTheme(theme)
  \/ hookSystemThemeChange
  \/ legacyInitializeTheme
  \/ legacyToggleTheme
  \/ legacySystemChange

SpecTheme == InitTheme /\ [][NextTheme]_vars

\* One page served with data-category attributes and All marked active: its
\* load, the user's filter clicks, and the retry button of the error panel.
InitReload ==
  /\ Init
  /\ impl \in {"vanilla", "react"}
  /\ filterButtons = InitialButtons(TRUE, 1)

NextReload ==
  \/ started = 0 /\ Initialize
  \/ \E response \in Responses : InitializeSettle(1, response)
  \/ \E i \in 1..Len(FilterCategories) : handleFilterClick(i)
  \/ Retry
  \/ started = 0 /\ HookFetch("mount")
  \/ \E response \in Responses : HookSettle(1, response)
  \/ \E filter \in FilterInputs : setActiveFilterSafe(filter)
  \/ HookRetry

SpecReload == InitReload /\ [][NextReload]_vars

\* The start of the vanilla page in a document that may lack mount points:
\* the script constructs the application and, when that succeeds, loads;
\* the user clicks filter buttons and the theme toggle.  The content region
\* lies inside the modal element.
InitStartup ==
  /\ impl = "vanilla"
  /\ mounts \in {m \in SUBSET MountPoints : "modalContent" \in m => "modal" \in m}
  /\ components = Components("none", FALSE, FALSE, FALSE, FALSE)
  /\ \E hasData \in BOOLEAN, marked \in MarkedButtons :
       filterButtons = IF "filterButtons" \in mounts THEN InitialButtons(hasData, marked)
                       ELSE <<>>
  /\ filterComponent = [allEvents |-> <<>>, currentFilter |-> "All"]
  /\ appState =
       [events |-> <<>>, filter |-> [activeCategory |-> "All", filteredEvents |-> <<>>],
        theme |-> "light", isLoading |-> FALSE, error |-> null]
  /\ InitCommon
  /\ InitThemeCommon
  /\ themeReady = FALSE
  /\ storage \in [value : {null, "dark"}, fails : {FALSE}]
  /\ systemDark = FALSE

NextStartup ==
  \/ Construct
  \/ started = 0 /\ Initialize
  \/ \E response \in RetryResponses : InitializeSettle(1, response)
  \/ \E i \in 1..Len(FilterCategories) : handleFilterClick(i)
  \/ toggleTheme

SpecStartup == InitStartup /\ [][NextStartup]_vars

\* The same start, every fetch it issues settling in the end and the
\* minimum-loading timer firing: Promise.all then resolves or rejects, and
\* the continuation of initialize() runs.
LoadSettles == \E response \in RetryResponses : InitializeSettle(1, response)

SpecStartupLive == InitStartup /\ [][NextStartup]_vars /\ WF_vars(LoadSettles)

\* One page with everything its user can do once it has loaded: the load (a
\* payload of Tiger and Dodo events, or a 404), the theme's initialisation
\* where the page's start has not run it yet, and then filter clicks, entry
\* activations and theme toggles in any order.
InitActions == Init

NextActions ==
  \/ started = 0 /\ Initialize
  \/ \E response \in RetryResponses : InitializeSettle(1, response)
  \/ \E i \in 1..Len(FilterCategories) : handleFilterClick(i)
  \/ \E i \in 1..MaxEvents : handleTimelineClick(i)
  \/ \E i \in 1..MaxEvents : learnMoreClick(i)
  \/ toggleTheme
  \/ started = 0 /\ HookFetch("mount")
  \/ \E response \in RetryResponses : HookSettle(1, response)
  \/ \E filter \in FilterCategorySet : setActiveFilterSafe(filter)
  \/ \E i \in 1..MaxEvents : openModal(i)
  \/ hookInitializeTheme
  \/ hookToggleTheme
  \/ initializeApp
  \/ \E response \in RetryResponses : LegacySettle(response)
  \/ \E c \in FilterCategorySet : legacyHandleFilterClick(c)
  \/ \E i \in 1..MaxEvents, target \in LegacyTargets : legacyHandleTimelineClick(i, target)
  \/ listenersReady /\ legacyInitializeTheme
  \/ legacyToggleTheme

SpecActions == InitActions /\ [][NextActions]_vars

\* ------------------------------------------------------------------------
\* Properties of loading
\* ------------------------------------------------------------------------

\* The payload's events as the running implementation holds them once parsed:
\* DataFetcher rebuilds each event from its validated fields, the hook and
\* the legacy script keep the parsed objects.
ParsedEvents(raw) ==
  [k \in 1..Len(raw) |->
     IF impl = "vanilla" THEN validateEvent(raw[k], k - 1).events[1]
     ELSE asExtinctionEvent(raw[k])]

\* The event sequence the running implementation holds after a load.
LoadedEvents ==
  IF impl = "vanilla" THEN appState.events
  ELSE IF impl = "react" THEN hook.events
  ELSE [k \in 1..Len(timelineEvents.items) |-> asExtinctionEvent(timelineEvents.items[k])]

\* The region of the page that shows the timeline.
TimelineRegion == IF impl = "react" THEN TimelineView ELSE timeline

\* The error the running implementation reports, null when none.
LoadError ==
  IF impl = "vanilla" THEN appState.error
  ELSE IF impl = "react" THEN hook.error
  ELSE IF timeline.kind = "error" THEN timeline.message ELSE null

Injections(n) == {p \in [1..n -> 1..n] : \A i, j \in 1..n : i /= j => p[i] /= p[j]}

\* out is inp rearranged into ascending year, equal years in inp's order
IsStableSortByYear(out, inp) ==
  /\ Len(out) = Len(inp)
  /\ \E p \in Injections(Len(inp)) :
       /\ \A i \in 1..Len(out) : out[i] = inp[p[i]]
       /\ \A i, j \in 1..Len(out) :
            i < j => /\ out[i].year <= out[j].year
                     /\ (out[i].year = out[j].year => p[i] < p[j])

\* A payload of the documented shape: an object whose events is an array of
\* objects carrying every required field with its type, category in the
\* enumeration.
ValidPayload(response) ==
  /\ responseOk(response)
  /\ response.data.top = "object"
  /\ response.data.ev = "array"
  /\ \A k \in 1..Len(response.data.events) :
       LET e == response.data.events[k]
       IN  /\ e.obj
           /\ \A i \in 1..Len(requiredFields) :
                e[requiredFields[i]].t =
                  (IF requiredFields[i] \in {"id", "year"} THEN "number" ELSE "string")
           /\ e.category.s \in AnimalCategories

\* C1: for every valid payload the load succeeds and the events it leaves in
\* the application (DataFetcher.fetchEvents, the hook's fetch, the legacy
\* loadEvents) are the payload's events rearranged into non-decreasing year,
\* events of equal year keeping their order in the payload.
C1_LoadSortsStably ==
  (last.op = "settle" /\ ValidPayload(last.response)) =>
    /\ LoadError = null
    /\ IsStableSortByYear(LoadedEvents, ParsedEvents(last.response.data.events))

\* a load of a payload listing the 1936 event before the 1662 event has settled
C1_Witness ==
  /\ last.op = "settle"
  /\ last.response = Response(200, Payload("object", "array", <<Raw(Tiger), Raw(Dodo)>>))
  /\ LoadedEvents = <<Dodo, Tiger>>

\* The malformations of a payload: the top level is no object, events is
\* absent or no array, an event lacks a required field, or an event's
\* category is outside the enumeration.
MalformedPayload(response) ==
  /\ responseOk(response)
  /\ \/ response.data.top /= "object"
     \/ response.data.ev /= "array"
     \/ \E k \in 1..Len(response.data.events) :
          \/ \E i \in 1..Len(requiredFields) :
               response.data.events[k][requiredFields[i]].t = "undefined"
          \/ response.data.events[k].category.s \notin AnimalCategories

\* C2: for every malformed payload the load fails with an error, and no event
\* list becomes visible in the application state or in the timeline.
C2_MalformedPayloadRejected ==
  (last.op = "settle" /\ MalformedPayload(last.response)) =>
    /\ LoadError /= null
    /\ LoadedEvents = <<>>
    /\ TimelineRegion.kind /= "events"

\* What the state holds when the outcome `res` of a load is in effect: on
\* success its events, no error and a timeline drawn from those events; on
\* failure its message, in the state and in the timeline.
InEffect(res) ==
  IF res.ok
  THEN /\ LoadedEvents = res.events
       /\ LoadError = null
       /\ \E c \in FilterCategorySet :
            TimelineRegion = render(getFilteredEvents(res.events, c))
  ELSE /\ LoadError = res.message
       /\ TimelineRegion = Region("error", <<>>, res.message)

\* C3: when a load was started while an earlier one was pending, then once
\* both have settled, in either order, the events, the error and the timeline
\* are those of the load started later.
C3_LaterLoadWins ==
  (latestLoad.overlap /\ pending = {} /\ last.op = "settle") => InEffect(latestLoad.res)

\* ------------------------------------------------------------------------
\* Properties of the timeline region and the filter
\* ------------------------------------------------------------------------

IsLoading == IF impl = "react" THEN hook.isLoading ELSE appState.isLoading

ActiveFilter == IF impl = "react" THEN hook.activeFilter ELSE filterComponent.currentFilter

\* the events of a sequence whose category is c, all of them for All
Matching(events, c) ==
  IF c = "All" THEN events ELSE SelectSeq(events, LAMBDA e : e.category = c)

\* C4: once the page has begun loading, the timeline region shows the loading
\* indicator alone while isLoading holds, else the error panel if an error is
\* set, else the empty-state message if no event passes the filter, else the
\* event entries.
C4_RegionPrecedence ==
  (impl \in {"vanilla", "react"} /\ started > 0) =>
    IF IsLoading THEN TimelineRegion.kind \in {"loading", "initial"}
    ELSE IF LoadError /= null THEN TimelineRegion.kind = "error"
    ELSE IF Matching(LoadedEvents, ActiveFilter) = <<>> THEN TimelineRegion.kind = "empty"
    ELSE TimelineRegion.kind = "events"

StoredFilteredEvents ==
  IF impl = "react" THEN filteredEvents(hook.events, hook.activeFilter)
  ELSE appState.filter.filteredEvents

\* C5: after a successful load and any filter changes, the entries rendered
\* in the timeline and the stored filteredEvents are the loaded events of the
\* active filter's category, all loaded events when the filter is All.
C5_RenderedMatchesFilter ==
  (impl \in {"vanilla", "react"} /\ started > 0 /\ pending = {} /\ LoadError = null) =>
    /\ TimelineRegion.entries = Matching(LoadedEvents, ActiveFilter)
    /\ StoredFilteredEvents = Matching(LoadedEvents, ActiveFilter)

\* the filter each implementation computes, on the events it has loaded
FilteredResult(c) ==
  IF impl = "vanilla" THEN getFilteredEvents(appState.events, c)
  ELSE IF impl = "react" THEN filteredEvents(hook.events, c)
  ELSE LET f == legacyFiltered(timelineEvents.items, c)
       IN  [k \in 1..Len(f) |-> asExtinctionEvent(f[k])]

\* out holds exactly the events of inp with category c, in inp's order
IsExactlyCategory(out, inp, c) ==
  /\ Len(out) = Cardinality({k \in 1..Len(inp) : inp[k].category = c})
  /\ \E f \in [1..Len(out) -> 1..Len(inp)] :
       /\ \A i, j \in 1..Len(out) : i < j => f[i] < f[j]
       /\ \A i \in 1..Len(out) : out[i] = inp[f[i]] /\ out[i].category = c

\* C6: for every category value and every loaded event sequence, the filtered
\* result is exactly the events of that category in their loaded order, and
\* the whole sequence for All.
C6_FilterExact ==
  \A c \in FilterInputs :
    IF c = "All" THEN FilteredResult(c) = LoadedEvents
    ELSE IsExactlyCategory(FilteredResult(c), LoadedEvents, c)

\* two events of different categories are loaded and the Birds filter shows
\* the one bird
C6_Witness ==
  /\ LoadedEvents = <<Dodo, Tiger>>
  /\ last = RanCategory("filterClick", "Birds")
  /\ Len(TimelineRegion.entries) = 1
  /\ FilteredResult("Birds") = <<Dodo>>

\* the counts each implementation reports for the events it has loaded
CategoryCounts ==
  IF impl = "react" THEN eventCounts(hook.events)
  ELSE getCategoryCounts(filterComponent.allEvents)

\* C7: the category counts have exactly the keys All, Mammals, Birds and
\* Reptiles; All is the number of loaded events, and so is the sum of the
\* other three.
C7_CountsAddUp ==
  LET counts == CategoryCounts
      total == IF impl = "react" THEN Len(hook.events) ELSE Len(filterComponent.allEvents)
  IN  impl \in {"vanilla", "react"} =>
        /\ DOMAIN counts = {"All", "Mammals", "Birds", "Reptiles"}
        /\ \A c \in DOMAIN counts : counts[c] \in 0..total
        /\ counts["All"] = total
        /\ counts["Mammals"] + counts["Birds"] + counts["Reptiles"] = total

\* two events are loaded, one of them a bird, and no reptile
C7_Witness ==
  /\ impl \in {"vanilla", "react"}
  /\ LoadedEvents = <<Dodo, Tiger>>
  /\ CategoryCounts["All"] = 2
  /\ CategoryCounts["Birds"] = 1
  /\ CategoryCounts["Reptiles"] = 0

\* ------------------------------------------------------------------------
\* Properties of the modal
\* ------------------------------------------------------------------------

\* the modal of the running implementation (the legacy script keeps no modal
\* state outside the DOM: its selection is what the modal shows while it is
\* displayed)
Modal ==
  IF impl = "react" THEN [isOpen |-> useModal.isOpen, event |-> useModal.selectedEvent]
  ELSE IF impl = "vanilla"
  THEN [isOpen |-> modalComponent.isOpen, event |-> modalComponent.currentEvent]
  ELSE [isOpen |-> ~modal.hidden,
        event |-> IF modal.hidden THEN NoEvent ELSE asExtinctionEvent(modal.body)]

\* C8: in every reachable state the modal is open exactly when an event is
\* selected; the selection is a single value, and what ModalComponent holds
\* is an event of the loaded sequence (useModal holds whatever openModal was
\* given).
C8_OpenIffSelected ==
  /\ Modal.isOpen <=> Modal.event /= NoEvent
  /\ (Modal.isOpen /\ impl /= "react") =>
       \E k \in 1..Len(LoadedEvents) : LoadedEvents[k] = Modal.event

\* an event has been opened and then the modal closed again
C8_Witness ==
  /\ last.op = "close"
  /\ last.selected \in ValidEvents
  /\ ~Modal.isOpen
  /\ Modal.event = NoEvent

\* C9: open(e) leaves e selected and the modal open, whatever was selected
\* before, so that open(e1); open(e2) leaves e2 alone; close() leaves nothing
\* selected and the modal closed, so that no earlier selection comes back; and
\* close() on a closed modal changes nothing.
C9_ModalOperations ==
  [][/\ last'.op = "open" => Modal' = [isOpen |-> TRUE, event |-> last'.event]
     /\ last'.op = "close" => Modal' = [isOpen |-> FALSE, event |-> NoEvent]
     /\ (last'.op = "close" /\ ~Modal.isOpen) =>
          UNCHANGED <<modalComponent, useModal, bodyOverflow>>]_vars

\* Tiger has been opened while Dodo was selected
C9_Witness ==
  /\ last.op = "open"
  /\ last.selected = Dodo
  /\ last.event = Tiger
  /\ Modal = [isOpen |-> TRUE, event |-> Tiger]

\* ------------------------------------------------------------------------
\* Properties of the theme
\* ------------------------------------------------------------------------

\* the theme of the running implementation
Theme ==
  IF impl = "vanilla" THEN themeComponent.currentTheme
  ELSE IF impl = "react" THEN useTheme.theme
  ELSE legacyTheme

\* C10: the theme is always light or dark; a toggle turns light into dark and
\* dark into light; and the second of two consecutive toggles restores the
\* theme that held before the first.
C10_ToggleFlips ==
  [][/\ Theme \in {"light", "dark"}
     /\ Theme' \in {"light", "dark"}
     /\ last'.op = "toggle" =>
          /\ Theme = "light" => Theme' = "dark"
          /\ Theme = "dark" => Theme' = "light"
     /\ (last.op = "toggle" /\ last'.op = "toggle") => Theme' = last.wasTheme]_vars

\* a toggle has turned the dark theme, itself reached by a toggle or from the
\* stored preference, into light
C10_Witness ==
  /\ last.op = "toggle"
  /\ last.wasTheme = "dark"
  /\ Theme = "light"
  /\ ~bodyDark

\* the preference a read of the storage yields: the stored theme, or null
\* when nothing valid is stored or the read fails
PersistedPreference ==
  IF ~storage.fails /\ isValidTheme(storage.value) THEN storage.value ELSE null

\* what setTheme leaves alone when it does nothing: the storage, the
\* document, the toggle control and what the listeners keep
ThemeOutputs ==
  <<themeComponent, useTheme, bodyDark, metaThemeColor, toggleButton, storage, appState>>

\* C11: setTheme called with the theme that is already current changes
\* nothing: the storage is not written, the document is not re-applied, the
\* toggle control is not updated and no listener is notified.
C11_SetSameThemeNoOp ==
  [][(last'.op = "setTheme" /\ last'.category = Theme) => UNCHANGED ThemeOutputs]_vars

\* C12: once the theme is initialised it is the persisted preference when a
\* valid one can be read, and the system's preference otherwise.
C12_InitialThemePrecedence ==
  last.op = "initializeTheme" =>
    Theme = IF PersistedPreference /= null THEN PersistedPreference ELSE detectSystemTheme

\* C13: a change of the system's colour scheme makes the new preference the
\* theme when no valid persisted preference can be read at that moment, and
\* leaves the theme and the document alone when one can.  (ThemeComponent and
\* useTheme; the legacy script has no such listener.)
C13_SystemChangeIffNoPreference ==
  [][(last'.op = "systemChange" /\ impl \in {"vanilla", "react"}) =>
       IF PersistedPreference = null
       THEN /\ Theme' = (IF systemDark' THEN "dark" ELSE "light")
            /\ bodyDark' = systemDark'
       ELSE /\ Theme' = Theme
            /\ UNCHANGED ThemeOutputs]_vars

\* nothing is persisted, the theme was light, and the system turning dark has
\* made it dark
C13_Witness ==
  /\ last.op = "systemChange"
  /\ impl \in {"vanilla", "react"}
  /\ PersistedPreference = null
  /\ last.wasTheme = "light"
  /\ Theme = "dark"
  /\ bodyDark

\* C14: once the user has chosen a theme (a toggle or a setTheme), every
\* change of the system's colour scheme leaves the theme alone until the
\* preference is cleared, also when the storage fails.
C14_ExplicitChoiceSticks ==
  [][(userChose /\ last'.op = "systemChange") => Theme' = Theme]_vars

\* ------------------------------------------------------------------------
\* Properties of initialize
\* ------------------------------------------------------------------------

\* C15: initialize() shows the loading indicator before its load is issued,
\* so that the indicator is up for as long as the load is pending.  When the
\* load succeeds the filter component is given the full event set, the
\* timeline is left rendered with all of it, whatever the filter, and the
\* indicator is hidden; when it fails the indicator is hidden and the error
\* panel carries the message of the failure.  Either way isLoading ends false;
\* error ends null after a success and set after a failure.
C15_InitializeSequence ==
  [][impl = "vanilla" =>
       /\ last'.op = "initialize" =>
            /\ pending' /= pending
            /\ loadingDisplay' = "block"
            /\ appState'.isLoading
       /\ (last'.op = "settle" /\ latestLoad'.res.ok) =>
            /\ filterComponent'.allEvents = latestLoad'.res.events
            /\ appState'.events = latestLoad'.res.events
            /\ timeline' = render(latestLoad'.res.events)
            /\ loadingDisplay' = "none"
            /\ ~appState'.isLoading
            /\ appState'.error = null
       /\ (last'.op = "settle" /\ ~latestLoad'.res.ok) =>
            /\ loadingDisplay' = "none"
            /\ timeline' = Region("error", <<>>, latestLoad'.res.message)
            /\ ~appState'.isLoading
            /\ appState'.error = latestLoad'.res.message
            /\ appState'.error /= null]_vars

\* the load has succeeded while the Birds filter was active: the timeline
\* shows the mammal too, and the indicator is hidden
C15_Witness ==
  /\ impl = "vanilla"
  /\ last.op = "settle"
  /\ latestLoad.res.ok
  /\ filterComponent.currentFilter = "Birds"
  /\ timeline.kind = "events"
  /\ \E k \in 1..Len(timeline.entries) : timeline.entries[k].category = "Mammals"
  /\ loadingDisplay = "none"
  /\ ~appState.isLoading

\* ------------------------------------------------------------------------
\* Properties of retry
\* ------------------------------------------------------------------------

\* the page in which a fresh initialize has issued its load and nothing else
\* has happened
FreshlyStarted ==
  /\ started = 1
  /\ pending = {1}
  /\ latestLoad = NotSettled(FALSE)
  /\ bodyOverflow = ""
  /\ IF impl = "vanilla"
     THEN /\ appState =
               [events |-> <<>>,
                filter |-> [activeCategory |-> "All", filteredEvents |-> <<>>],
                theme |-> "light", isLoading |-> TRUE, error |-> null]
          /\ filterComponent = [allEvents |-> <<>>, currentFilter |-> "All"]
          /\ filterButtons = InitialButtons(TRUE, 1)
          /\ timeline = Region("initial", <<>>, "")
          /\ loadingDisplay = "block"
          /\ modalComponent = [isOpen |-> FALSE, currentEvent |-> NoEvent]
     ELSE /\ hook = [events |-> <<>>, isLoading |-> TRUE, error |-> null,
                     activeFilter |-> "All"]
          /\ mounted
          /\ useModal = [isOpen |-> FALSE, selectedEvent |-> NoEvent]

\* C16: the retry of the error panel issues the load again from the state a
\* fresh initialize issues it from, whatever the page held and however often
\* it is used; and the first load of the page starts from that same state, so
\* that a retried attempt ends where a fresh one with the same outcome ends.
C16_RetryIsFreshInitialize ==
  [][/\ last'.op = "retry" => FreshlyStarted'
     /\ (last.op = "construct" /\ last'.op \in {"initialize", "mount"}) => FreshlyStarted']_vars

\* the retry button has been used on an error panel while the Birds filter
\* was selected, and the load is pending again with All selected
C16_Witness ==
  /\ last.op = "retry"
  /\ last.category = "Birds"
  /\ FreshlyStarted
  /\ IF impl = "vanilla" THEN filterComponent.currentFilter = "All"
     ELSE hook.activeFilter = "All"

\* ------------------------------------------------------------------------
\* Properties of the error state
\* ------------------------------------------------------------------------

\* C17: while the error of a failed load is set, the timeline holds the error
\* panel and no event, whatever filter is clicked afterwards.
C17_ErrorShowsNoEvents ==
  LoadError /= null =>
    /\ TimelineRegion.kind = "error"
    /\ TimelineRegion.entries = <<>>

\* ------------------------------------------------------------------------
\* Properties of activation
\* ------------------------------------------------------------------------

\* the identifier the i-th rendered entry carries (its data-event-id)
EntryIdentifier(i) ==
  IF impl = "legacy" THEN eventIdText(timeline.entries[i])
  ELSE ToString(timeline.entries[i].id)

\* positions of the loaded events whose id is the number that identifier
\* denotes
WithIdentifier(text) ==
  IF impl = "legacy"
  THEN {k \in 1..Len(timelineEvents.items) :
          /\ timelineEvents.items[k].id.t = "number"
          /\ ToString(timelineEvents.items[k].id.n) = text}
  ELSE {k \in 1..Len(appState.events) : ToString(appState.events[k].id) = text}

\* C18: activating a rendered entry (ExtinctionTimelineApp and the legacy
\* script) opens the modal with the loaded event that has the entry's
\* identifier, whether or not the current filter selects it; when no loaded
\* event has that identifier the activation changes nothing.
C18_ActivationLooksUpLoaded ==
  [][(/\ impl \in {"vanilla", "legacy"}
      /\ last'.op \in {"open", "timelineClick"}
      /\ last'.entry > 0) =>
       (LET hits == WithIdentifier(EntryIdentifier(last'.entry))
        IN  IF hits /= {}
            THEN Modal' = [isOpen |-> TRUE, event |-> LoadedEvents[Min(hits)]]
            ELSE UNCHANGED <<modalComponent, modal, bodyOverflow, timeline, appState,
                             timelineEvents>>)]_vars

\* a mammal has been opened from the timeline while the Birds filter was
\* selected
C18_Witness ==
  /\ impl = "vanilla"
  /\ last.op = "open"
  /\ last.entry > 0
  /\ filterComponent.currentFilter = "Birds"
  /\ Modal = [isOpen |-> TRUE, event |-> Tiger]

\* C19: Enter or Space on a rendered entry, and its "Learn More" button, open
\* the modal with the entry's event, as a click on the entry does
\* (TimelineRenderer and EventMarker).
C19_KeyboardAndLearnMoreOpen ==
  [][(/\ impl \in {"vanilla", "react"}
      /\ \/ last'.op = "learnMore"
         \/ last'.op = "keydown" /\ last'.category \in {"Enter", " "}) =>
       Modal' = [isOpen |-> TRUE, event |-> last'.event]]_vars

\* C20: while the modal is open, Escape closes it, a click on the overlay
\* closes it and a click inside its content leaves it as it is; while it is
\* closed, Escape changes nothing (ModalComponent and EventModal).
C20_EscapeAndBackdrop ==
  [][(impl = "vanilla" \/ impl = "react") =>
       /\ (last'.op = "modalKeydown" /\ last'.category = "Escape") =>
            (IF Modal.isOpen THEN Modal' = [isOpen |-> FALSE, event |-> NoEvent]
             ELSE UNCHANGED <<modalComponent, useModal, bodyOverflow>>)
       /\ (last'.op = "modalClick" /\ last'.category = "overlay" /\ Modal.isOpen) =>
            Modal' = [isOpen |-> FALSE, event |-> NoEvent]
       /\ (last'.op = "modalClick" /\ last'.category = "content" /\ Modal.isOpen) =>
            (Modal'.isOpen /\ UNCHANGED <<modalComponent, useModal, bodyOverflow>>)]_vars

\* a click inside the content of the modal that shows Tiger has left it open
C20_Witness ==
  /\ last.op = "modalClick"
  /\ last.category = "content"
  /\ last.selected = Tiger
  /\ Modal = [isOpen |-> TRUE, event |-> Tiger]

\* C21: however many times TimelineRenderer.render has run, #timeline holds
\* at most one click listener and at most one keydown listener, and one click,
\* or one press of Enter or Space, on an entry calls the activation handler
\* exactly once.
C21_OneListenerEach ==
  impl = "vanilla" =>
    /\ timelineListeners.click <= 1
    /\ timelineListeners.keydown <= 1
    /\ (\/ last.op \in {"open", "timelineClick", "learnMore"}
        \/ last.op = "keydown" /\ last.category \in {"Enter", " "}) =>
         last.activations = 1

\* the element is one of the modal's focusable elements
InModal(element) == \E k \in 1..Len(getFocusableElements) : getFocusableElements[k] = element

\* C22: when the modal goes from closed to open the focus is on its close
\* button, and a Tab or Shift+Tab pressed while the focus is on a focusable
\* element of the open modal leaves it on one: Tab on the last moves it to the
\* first, Shift+Tab on the first to the last (ModalComponent and EventModal).
C22_FocusTrap ==
  [][(impl = "vanilla" \/ impl = "react") =>
       /\ (~Modal.isOpen /\ Modal'.isOpen) => activeElement' = "close-btn"
       /\ (last'.op = "tab" /\ InModal(activeElement)) =>
            LET n == Len(getFocusableElements)
            IN  /\ Modal.isOpen
                /\ InModal(activeElement')
                /\ (last'.category = "Tab" /\ activeElement = getFocusableElements[n]) =>
                     activeElement' = getFocusableElements[1]
                /\ (last'.category = "Shift+Tab" /\ activeElement = getFocusableElements[1]) =>
                     activeElement' = getFocusableElements[n]]_vars

\* Tab has been pressed with the focus on the close button of the open modal,
\* and the focus is on the close button
C22_Witness ==
  /\ impl \in {"vanilla", "react"}
  /\ last.op = "tab"
  /\ last.category = "Tab"
  /\ last.focus = "close-btn"
  /\ Modal.isOpen
  /\ activeElement = "close-btn"

\* C23: the page-scroll lock (body overflow hidden) is held exactly while the
\* modal is open, in every implementation.
C23_ScrollLockIffOpen == (bodyOverflow = "hidden") <=> Modal.isOpen

\* the same, for the implementations that take the lock
ScrollLockWhereTaken == impl /= "legacy" => C23_ScrollLockIffOpen

\* The category the page shows as selected: the filter the vanilla component
\* and the hook hold, and for the legacy script, which keeps none, the text of
\* the button marked active.
ActiveCategory ==
  IF impl = "legacy"
  THEN LET marked == {k \in DOMAIN filterButtons : filterButtons[k].active}
       IN  IF marked = {} THEN null ELSE filterButtons[Min(marked)].textContent
  ELSE ActiveFilter

\* C24: choosing the category that is already selected changes nothing: the
\* selected category stays, and the timeline is not rendered again (for the
\* vanilla component, its filter-change callback is not called).
C24_SameFilterNoOp ==
  [][(last'.op = "filterClick" /\ last'.category = ActiveCategory) =>
       /\ ActiveCategory' = ActiveCategory
       /\ TimelineRegion' = TimelineRegion
       /\ last'.renders = 0]_vars

\* the same, for the vanilla component and the hook
SameFilterNoOpWhereGuarded ==
  [][(impl /= "legacy" /\ last'.op = "filterClick" /\ last'.category = ActiveCategory) =>
       /\ ActiveCategory' = ActiveCategory
       /\ TimelineRegion' = TimelineRegion
       /\ last'.renders = 0]_vars

\* the value a filter click asks for lies outside the enumeration: for the
\* hook the argument of setActiveFilterSafe, for the vanilla component the
\* data-category and the text of the button clicked
AsksOutsideEnumeration(op) ==
  /\ op.op = "filterClick"
  /\ IF impl = "react" THEN op.category \notin FilterCategorySet
     ELSE \E i \in DOMAIN filterButtons :
            /\ op.category = FilterCategories[i]
            /\ filterButtons[i].dataCategory \notin FilterCategorySet
            /\ filterButtons[i].textContent \notin FilterCategorySet

HookRejectedFish ==
  /\ impl = "react"
  /\ last = [RanCategory("filterClick", "Fish") EXCEPT !.renders = 0]
  /\ ActiveFilter = "Birds"

\* FilterPanel: the buttons React renders for the active filter and the counts
FilterPanel(activeFilter, counts) ==
  [i \in 1..Len(FilterCategories) |->
     LET category == FilterCategories[i]
         isActive == activeFilter = category
     IN  [dataCategory |-> category,
          textContent |-> category \o " (" \o ToString(counts[category]) \o ")",
          active |-> isActive,
          ariaPressed |-> IF isActive THEN "true" ELSE "false"]]

\* the filter controls of the page
FilterControls ==
  IF impl = "react" THEN FilterPanel(hook.activeFilter, eventCounts(hook.events))
  ELSE filterButtons

\* the number of loaded events a control of category c stands for
CountOf(c) == Len(Matching(LoadedEvents, c))

\* the last handler stored newly loaded events, or changed the filter
EventsOrFilterUpdated ==
  \/ last.op = "settle" /\ latestLoad.st = "done" /\ latestLoad.res.ok /\ LoadError = null
  \/ last.op = "filterClick" /\ last.renders = 1

\* every control reads its category and the number of loaded events of it
LabelsShowCounts ==
  \A i \in DOMAIN FilterControls :
    FilterControls[i].textContent =
      FilterCategories[i] \o " (" \o ToString(CountOf(FilterCategories[i])) \o ")"

\* the control of the active filter, and no other, is marked active and
\* pressed
ActiveControlPressed ==
  \A i \in DOMAIN FilterControls :
    LET isActive == FilterCategories[i] = ActiveFilter
    IN  /\ FilterControls[i].active = isActive
        /\ FilterControls[i].ariaPressed = IF isActive THEN "true" ELSE "false"

\* C26: once loaded events have been stored or the filter has changed, every
\* filter control reads the current count of its category, "(0)" for none, and
\* exactly the control of the active filter is marked active with pressed
\* state "true", every other with "false" (FilterComponent and FilterPanel).
C26_ControlsShowCountsAndActive ==
  ((impl = "vanilla" \/ impl = "react") /\ EventsOrFilterUpdated) =>
    LabelsShowCounts /\ ActiveControlPressed

\* the React panel alone
PanelShowsCountsAndActive ==
  impl = "react" => LabelsShowCounts /\ ActiveControlPressed

\* Header: the toggle React renders for the theme
Header(theme) ==
  [textContent |-> IF theme = "light" THEN "moon" ELSE "sun",
   ariaLabel |-> IF theme = "light" THEN "Switch to dark theme" ELSE "Switch to light theme"]

\* the theme toggle of the page
ToggleControl == IF impl = "react" THEN Header(useTheme.theme) ELSE toggleButton

\* C27: whenever the theme changes, the document is in dark mode exactly if
\* the new theme is dark, and the toggle shows the moon and "Switch to dark
\* theme" for light, the sun and "Switch to light theme" for dark.
C27_ThemeOutputsAgree ==
  [][Theme' /= Theme =>
       /\ bodyDark' = (Theme' = "dark")
       /\ ToggleControl'.textContent = (IF Theme' = "dark" THEN "sun" ELSE "moon")
       /\ ToggleControl'.ariaLabel =
            (IF Theme' = "dark" THEN "Switch to light theme" ELSE "Switch to dark theme")]_vars

\* the ThemeComponent's toggle has turned light into dark
C27_Witness ==
  /\ impl = "vanilla"
  /\ last.op = "toggle"
  /\ last.wasTheme = "light"
  /\ Theme = "dark"
  /\ bodyDark
  /\ ToggleControl = [textContent |-> "sun", ariaLabel |-> "Switch to light theme"]

\* the theme an initialisation without a preference ends with: the system's,
\* and for the legacy script, which does not ask the system, light
ThemeWithoutPreference == IF impl = "legacy" THEN "light" ELSE detectSystemTheme

\* the theme handlers: initialisation, toggle, setTheme, the reset and the
\* listener of the system's preference
ThemeOperations == {"initializeTheme", "toggle", "setTheme", "systemChange", "reset"}

\* C28: no theme operation ends by throwing what the storage threw; an
\* initialisation whose read fails or finds nothing valid ends as one without
\* a preference; and a toggle whose write fails still changes the theme.
C28_StorageFailureContained ==
  last.op \in ThemeOperations =>
    /\ ~last.threw
    /\ (last.op = "initializeTheme" /\ PersistedPreference = null) =>
         Theme = ThemeWithoutPreference
    /\ (last.op = "toggle" /\ storage.fails) => Theme /= last.wasTheme

\* the same, for ThemeComponent and useTheme, whose reads and writes are
\* guarded
StorageFailureContainedWhereGuarded == impl /= "legacy" => C28_StorageFailureContained

\* field f of the parsed record e fails a field-level check: it is absent or
\* null, of the wrong primitive kind, an empty string, or a category outside
\* the enumeration
FieldFails(e, f) ==
  \/ e[f].t \in {"undefined", "null"}
  \/ f \in {"id", "year"} /\ e[f].t /= "number"
  \/ f \notin {"id", "year"} /\ (e[f].t /= "string" \/ e[f].s = "")
  \/ f = "category" /\ e[f].s \notin AnimalCategories

FieldNames == {requiredFields[i] : i \in 1..Len(requiredFields)}

\* the positions of the records of a parsed events array that fail a check
Offending(events) ==
  {k \in 1..Len(events) : \E f \in FieldNames : FieldFails(events[k], f)}

\* the texts of an error that tell both the index of a record and the name
\* of one of its fields, alone or behind the prefix of a load error
NamingTexts(index, field) ==
  LET ix == ToString(index)
      texts == {"Event at index " \o ix \o " missing required field: " \o field,
                "Event " \o ix \o " " \o field \o " must be a non-empty string",
                "Event " \o ix \o " " \o field \o " must be a valid number",
                "Event " \o ix \o " " \o field \o " must be one of: Mammals, Birds, Reptiles"}
  IN  texts \cup {"Failed to load timeline data: " \o t : t \in texts}

\* the last handler settled a load whose body held an events array
SettledWithArray ==
  /\ last.op = "settle"
  /\ responseOk(last.response)
  /\ last.response.data.top = "object"
  /\ last.response.data.ev = "array"

\* C29: when a load has failed on a record that fails a field-level check,
\* the error reported tells the index of the first such record and the name
\* of a field of it that fails (DataFetcher and useExtinctionEvents).
C29_ErrorNamesRecordAndField ==
  LET events == last.response.data.events
  IN  ((impl = "vanilla" \/ impl = "react") /\ SettledWithArray /\ LoadError /= null
         /\ Offending(events) /= {}) =>
        LET k == Min(Offending(events))
        IN  \E f \in FieldNames :
              FieldFails(events[k], f) /\ LoadError \in NamingTexts(k - 1, f)

\* the same for the DataFetcher alone, where it constructs its TimelineError
FetcherNamesRecordAndField ==
  (impl = "vanilla" /\ LoadError /= "TimelineError is not defined") =>
    C29_ErrorNamesRecordAndField

\* the texts of an error that carry an HTTP status, alone or behind the
\* prefix of a load error
StatusTexts(status) ==
  LET text == "HTTP " \o ToString(status) \o ": " \o statusText(status)
  IN  {text, "Failed to load timeline data: " \o text}

\* the handlers that start a load: the page's own start, and the user's retry
LoadStarters == {"initialize", "mount", "refetch", "retry"}

\* C30: a load issues one request; when it settles with a non-success status
\* the error reported carries that status, nothing of the body is loaded and
\* no further request is issued; and a request is issued only by a start of
\* the page or a retry of the user (DataFetcher and useExtinctionEvents).
C30_OneRequestPerLoad ==
  [][(impl = "vanilla" \/ impl = "react") =>
       /\ (last'.op \in LoadStarters) =>
            /\ pending' \in {pending \cup {started'}, {started'}}
            /\ started' \notin pending \/ last'.op = "retry"
       /\ (last'.op = "settle" /\ ~responseOk(last'.response)) =>
            /\ LoadError' \in StatusTexts(last'.response.status)
            /\ LoadedEvents' = LoadedEvents
            /\ started' = started
            /\ pending' = pending \ {last'.token}
       /\ (started' /= started \/ ~(pending' \subseteq pending)) =>
            last'.op \in LoadStarters]_vars

\* the same for the hook, and for the DataFetcher where it constructs its
\* TimelineError
OneRequestWhereErrorConstructed ==
  [][(impl = "vanilla" /\ LoadError' = "TimelineError is not defined") \/
     (\/ impl = "legacy"
      \/ /\ (last'.op \in LoadStarters) =>
              /\ pending' \in {pending \cup {started'}, {started'}}
              /\ started' \notin pending \/ last'.op = "retry"
         /\ (last'.op = "settle" /\ ~responseOk(last'.response)) =>
              /\ LoadError' \in StatusTexts(last'.response.status)
              /\ LoadedEvents' = LoadedEvents
              /\ started' = started
              /\ pending' = pending \ {last'.token}
         /\ (started' /= started \/ ~(pending' \subseteq pending)) =>
              last'.op \in LoadStarters)]_vars

\* ------------------------------------------------------------------------
\* Properties of the state as a whole
\* ------------------------------------------------------------------------

\* the loaded events, wherever an implementation keeps them
LoadedState == <<appState.events, filterComponent.allEvents, hook.events, timelineEvents>>

\* the active filter and the list derived from it (the legacy script keeps
\* the filter as the active marking of its buttons)
FilterState ==
  <<filterComponent.currentFilter, appState.filter, hook.activeFilter,
    [k \in DOMAIN filterButtons |-> filterButtons[k].active]>>

\* the modal selection
ModalState == <<modalComponent, useModal, modal>>

\* the theme (the legacy script keeps it as the body's class)
ThemeState == <<themeComponent.currentTheme, appState.theme, useTheme, bodyDark>>

\* the handlers of a click or key press on a rendered entry
ActivationOps == {"open", "keydown", "learnMore", "timelineClick", "contentClick"}

\* C31: every user action changes one state component and leaves the others
\* as they were: a filter click leaves the theme, the persisted preference,
\* the modal selection and the loaded events unchanged; an entry activation
\* leaves everything but the modal selection unchanged; a theme toggle leaves
\* everything but the theme and its persisted preference unchanged.
C31_OneComponentPerAction ==
  [][(/\ last'.op = "filterClick" =>
          UNCHANGED <<ThemeState, storage, ModalState, LoadedState>>
      /\ last'.op \in ActivationOps =>
          UNCHANGED <<FilterState, ThemeState, storage, LoadedState>>
      /\ last'.op = "toggle" =>
          UNCHANGED <<FilterState, ModalState, LoadedState>>)]_vars

\* a toggle has made the theme dark and stored it, on a page that shows the
\* birds of a loaded sequence with one of them open in the modal
C31_Witness ==
  /\ last.op = "toggle"
  /\ Theme = "dark"
  /\ PersistedPreference = "dark"
  /\ ActiveCategory = "Birds"
  /\ Modal.isOpen
  /\ Len(LoadedEvents) = MaxEvents

\* what a user of the page can see change, or the application keeps
PageState ==
  <<appState, filterComponent, filterButtons, timeline, modalComponent, themeComponent,
    bodyDark, metaThemeColor, toggleButton, storage>>

\* C32: when a required mount point is missing as the application is
\* constructed, startup has failed once the constructor is through and no
\* load is ever issued; and from then on nothing operates: no handler changes
\* the application's state or the page.
C32_MissingMountAborts ==
  /\ []((components.app /= "none" /\ mounts /= MountPoints) =>
          (components.app = "failed" /\ started = 0 /\ pending = {}))
  /\ [][(components.app = "failed") => UNCHANGED PageState]_vars

\* the part of it that holds: a missing mount point fails the startup before
\* any load is issued
MissingMountFailsBeforeLoad ==
  (components.app /= "none" /\ mounts /= MountPoints) =>
    (components.app = "failed" /\ started = 0 /\ pending = {} /\ ~appState.isLoading)

\* and with every mount point present the application is constructed whole
AllMountsConstruct ==
  (components.app /= "none" /\ mounts = MountPoints) =>
    components = Components("constructed", TRUE, TRUE, TRUE, TRUE)

\* C33: every started initialize finishes: the loading indicator is hidden,
\* the application is no longer loading, and the timeline region shows the
\* event entries, the empty-state message or the error panel.
C33_InitializeFinishes ==
  (started > 0) ~>
    (/\ pending = {}
     /\ loadingDisplay = "none"
     /\ ~appState.isLoading
     /\ timeline.kind \in {"events", "empty", "error"})

\* an initialize whose fetch was answered 404 has finished with the error
\* panel
C33_Witness ==
  /\ last.op = "settle"
  /\ ~responseOk(last.response)
  /\ pending = {}
  /\ loadingDisplay = "none"
  /\ timeline.kind = "error"

\* C34: in useExtinctionEvents, isLoading is true in every state in which a
\* fetch started by the mount effect or by refetch has not yet settled, also
\* when two of them overlap and one has settled.
C34_LoadingWhilePending ==
  (impl = "react" /\ pending /= {}) => hook.isLoading

\* the same for fetches that do not overlap: isLoading is true while the one
\* fetch is pending
LoadingWhileOnlyFetchPending ==
  (impl = "react" /\ pending /= {} /\ ~latestLoad.overlap /\ pending = {started}) =>
    hook.isLoading

\* the handlers the user starts to choose a theme
ChoosingOps == {"toggle", "setTheme"}

\* C35: initialising the theme and a change of the platform's preference
\* never write the persisted preference; a theme comes to be stored only by
\* a toggle or an explicit setTheme, so that a theme detected from the
\* platform is never recorded as the user's choice.
C35_DetectedThemeNotPersisted ==
  [][(/\ (last'.op = "initializeTheme" \/ last'.op = "systemChange") => storage' = storage
      /\ (storage'.value /= storage.value /\ storage'.value /= null) =>
           last'.op \in ChoosingOps)]_vars

\* the platform turned dark and the page followed it, with nothing stored
C35_Witness ==
  /\ last.op = "systemChange"
  /\ last.wasTheme = "light"
  /\ Theme = "dark"
  /\ systemDark
  /\ storage.value = null
  /\ ~storage.fails

\* C36: in ThemeComponent, once constructed and with a storage whose
\* operations succeed, the current theme equals the persisted preference
\* whenever a valid one exists; and after resetToSystemTheme no preference is
\* persisted and the current theme is the platform's.
C36_ThemeEqualsPreference ==
  (impl = "vanilla" /\ themeReady /\ ~storage.fails) =>
    /\ PersistedPreference /= null => themeComponent.currentTheme = PersistedPreference
    /\ last.op = "reset" =>
         /\ storage.value = null
         /\ themeComponent.currentTheme = detectSystemTheme

\* a reset has taken a page whose user had chosen light back to the dark
\* theme of the platform, and cleared the preference
C36_Witness ==
  /\ impl = "vanilla"
  /\ ~storage.fails
  /\ last.op = "reset"
  /\ last.wasTheme = "light"
  /\ systemDark
  /\ themeComponent.currentTheme = "dark"
  /\ storage.value = null

\* the category the i-th filter control resolved to when the FilterComponent
\* was constructed: the markup gives it as data-category or as the label
CategoryAtConstruction(i) == FilterCategories[i]

\* C37: in FilterComponent, a filter control resolves to the category it
\* resolved to at construction, whatever updateEvents calls and clicks came
\* since, and a click on it makes that category the active one: the count
\* written into its label leaves the control operable.
C37_ControlKeepsCategory ==
  /\ [](impl = "vanilla" =>
          \A i \in DOMAIN filterButtons :
            getButtonCategory(filterButtons[i]) = CategoryAtConstruction(i))
  /\ [][(impl = "vanilla" /\ last'.op = "filterClick") =>
          filterComponent'.currentFilter = last'.category]_vars

\* the same for a page whose controls carry data-category attributes
ControlKeepsCategoryWithAttribute ==
  (impl = "vanilla" /\ filterButtons[1].dataCategory /= "") =>
     \A i \in DOMAIN filterButtons :
       getButtonCategory(filterButtons[i]) = CategoryAtConstruction(i)

\* C38: between handlers, the state ExtinctionTimelineApp keeps mirrors its
\* components: appState.filter.activeCategory is the FilterComponent's
\* current filter, and appState.theme is the ThemeComponent's current theme.
C38_AppStateMirrorsComponents ==
  impl = "vanilla" =>
    /\ appState.filter.activeCategory = filterComponent.currentFilter
    /\ appState.theme = themeComponent.currentTheme

\* the part of it that holds: appState.theme is the ThemeComponent's theme
AppStateMirrorsTheme ==
  impl = "vanilla" => appState.theme = themeComponent.currentTheme

====
